---- MODULE Spec2Model ----
(***************************************************************************)
(* Model of the OpenAI provider of Browsary: the resumable agent state     *)
(* machine (lib/index.ts: prompt, continuePrompt, executePromptWorkflow,   *)
(* runAgentInternal) driving the conversation engine (lib/conversation.ts: *)
(* Conversation.start) and the built-in tool dispatcher (handle).          *)
(*                                                                         *)
(* Encoding of JavaScript values:                                          *)
(*   - a string is a sequence of tokens, <<>> being the empty string and   *)
(*     the token " " a white-space character;                              *)
(*   - an optional value is a sequence of length 0 (undefined) or 1;       *)
(*   - a JSON value is a record [t, n, kids]: a number (n), an array or an *)
(*     object whose kids are entries [k, v] in insertion order.            *)
(*                                                                         *)
(* Specifications:                                                         *)
(*   Spec         exchanges about the artifact and the clarification       *)
(*                question (emitPipeline, requestUserInput, final output); *)
(*   SpecNotify   exchanges about notifications (chatWithUser, output and  *)
(*                progress data, browser tools narrating their calls);     *)
(*   SpecFailure  exchanges that are cancelled or whose requests fail;     *)
(*   SpecControl  calls made with lists of control requests on snapshots   *)
(*                of every phase, whole or damaged;                        *)
(*   SpecUsage    one-round exchanges and calls of OpenAiModel (model.ts)  *)
(*                under a usage monitor that may veto;                     *)
(*   SpecConcurrent  two exchanges side by side on one provider instance;  *)
(*   SpecCallbacks   the same with onMessages promises settling later;     *)
(*   SpecRetry    runs of the Retry-Until-Valid workflow;                   *)
(*   SpecEndToEnd exchanges that drive the browser and deliver a pipeline;  *)
(*   SpecToolFailure exchanges whose tool calls fail;                       *)
(*   SpecEqual    arePipelinesEqual applied to pairs of pipelines;          *)
(*   SpecConversation  Conversation.start() on its own, item by item;       *)
(*   SpecEngine   a Conversation with an abortController, driven, added to  *)
(*                and restarted by its caller, its requests rejected or not;*)
(*   SpecVerify   exchanges that hand candidates to compilePipeline,        *)
(*                runPipeline and emitPipeline;                             *)
(*   SpecSchema   createPipelineToolSchema over the $defs of the pipeline   *)
(*                package (SpecSchemaAny: of any package).                  *)
(***************************************************************************)
EXTENDS Integers, Sequences, FiniteSets, TLC

\* ------------------------------------------------------------------ bounds
\* invalid terminal outputs the remote model gives before a valid one
MaxInvalid == 3
\* calls of prompt/continuePrompt made by the caller in one behaviour
MaxCalls == 2
\* response items (tool calls and other non-message items) the remote model
\* issues over one behaviour
MaxItems == 2
\* network rounds of one exchange
MaxRounds == 2
\* control requests passed to one call
MaxReqs == 2
\* items of one response of the remote model
MaxResponse == 2

\* ------------------------------------------------------------ basic values
None == <<>>
Some(x) == <<x>>
IsSome(o) == Len(o) > 0
Val(o) == o[1]
Last(seq) == seq[Len(seq)]

Phases == {"idle", "acting", "awaiting-user", "complete", "paused", "error"}

\* String.prototype.trim on a token string
RECURSIVE Trim(_)
Trim(s) ==
  IF s = <<>> THEN s
  ELSE IF Head(s) = " " THEN Trim(Tail(s))
  ELSE IF s[Len(s)] = " " THEN Trim(SubSeq(s, 1, Len(s) - 1))
  ELSE s

\* ------------------------------------------------------------- JSON values
JNum(n) == [t |-> "num", n |-> n, kids |-> <<>>]
JArr(items) == [t |-> "arr", n |-> 0,
                kids |-> [i \in 1..Len(items) |-> [k |-> "", v |-> items[i]]]]
JObj(entries) == [t |-> "obj", n |-> 0, kids |-> entries]
Entry(k, v) == [k |-> k, v |-> v]

\* the keys used by the modelled pipelines, in the order of Array.sort()
\* (UTF-16 code units: "_" sorts before the lower-case letters)
KeyOrder == <<"__proto__", "a", "b", "c">>
KeyRank(k) == CHOOSE i \in 1..Len(KeyOrder) : KeyOrder[i] = k

\* entries sorted by key (Object.keys(value).sort() followed by the reduce
\* that re-inserts the entries in that order)
RECURSIVE SortEntries(_)
SortEntries(es) ==
  IF es = <<>> THEN <<>>
  ELSE LET m == CHOOSE i \in 1..Len(es) :
                  \A j \in 1..Len(es) : KeyRank(es[i].k) <= KeyRank(es[j].k)
           rest == [i \in 1..(Len(es) - 1) |-> IF i < m THEN es[i] ELSE es[i + 1]]
       IN <<es[m]>> \o SortEntries(rest)

\* the entries that `acc[key] = ...` leaves as own properties of acc = {}:
\* assigning to the key __proto__ goes to the accessor inherited from
\* Object.prototype, which creates no own property
Assigned(es) == SelectSeq(es, LAMBDA e : e.k # "__proto__")

RECURSIVE normalizeValueForHash(_)
normalizeValueForHash(value) ==
  IF value.t = "arr"
  THEN [value EXCEPT !.kids =
          [i \in 1..Len(value.kids) |->
             Entry("", normalizeValueForHash(value.kids[i].v))]]
  ELSE IF value.t = "obj"
  THEN LET sorted == Assigned(SortEntries(value.kids))
       IN [value EXCEPT !.kids =
             [i \in 1..Len(sorted) |->
                Entry(sorted[i].k, normalizeValueForHash(sorted[i].v))]]
  ELSE value

\* JSON.stringify as a token string
RECURSIVE Stringify(_)
RECURSIVE StringifyKids(_, _)
StringifyKids(kids, isObj) ==
  IF kids = <<>> THEN <<>>
  ELSE (IF isObj THEN <<Head(kids).k, ":">> ELSE <<>>)
       \o Stringify(Head(kids).v)
       \o (IF Len(kids) > 1 THEN <<",">> ELSE <<>>)
       \o StringifyKids(Tail(kids), isObj)
Stringify(value) ==
  IF value.t = "num" THEN <<ToString(value.n)>>
  ELSE IF value.t = "arr" THEN <<"[">> \o StringifyKids(value.kids, FALSE) \o <<"]">>
  ELSE <<"{">> \o StringifyKids(value.kids, TRUE) \o <<"}">>

stableHash(value) == Stringify(normalizeValueForHash(value))

\* faulty variant: compares the values as given, without key normalisation
arePipelinesIdentical(first, second) == first = second

\* first and second are optional pipelines
arePipelinesEqual(first, second) ==
  IF ~IsSome(first) /\ ~IsSome(second) THEN TRUE
  ELSE IF ~IsSome(first) \/ ~IsSome(second) THEN FALSE
  ELSE stableHash(Val(first)) = stableHash(Val(second))

\* structural equality of two JSON values: equal as mappings at every depth,
\* arrays compared position by position
RECURSIVE StructEq(_, _)
StructEq(x, y) ==
  /\ x.t = y.t
  /\ x.n = y.n
  /\ Len(x.kids) = Len(y.kids)
  /\ IF x.t = "obj"
     THEN \A i \in 1..Len(x.kids) :
            \E j \in 1..Len(y.kids) :
               /\ x.kids[i].k = y.kids[j].k
               /\ StructEq(x.kids[i].v, y.kids[j].v)
     ELSE \A i \in 1..Len(x.kids) : StructEq(x.kids[i].v, y.kids[i].v)

\* the pipelines of the model
PipeAB == JObj(<<Entry("a", JNum(1)), Entry("b", JArr(<<JNum(1), JNum(2)>>))>>)
PipeBA == JObj(<<Entry("b", JArr(<<JNum(1), JNum(2)>>)), Entry("a", JNum(1))>>)
PipeRev == JObj(<<Entry("a", JNum(1)), Entry("b", JArr(<<JNum(2), JNum(1)>>))>>)
PipeEmpty == JObj(<<>>)

\* schema-invalid and non-compiling pipelines (the verdicts of the schema
\* validator and of the pipeline compiler, which are deterministic)
PipeBad == JObj(<<Entry("c", JNum(0))>>)
PipeNoCompile == JObj(<<Entry("c", JNum(1))>>)

validatePipelineSchema(pipelineJson) == pipelineJson # PipeBad
hasPipeline(pipelineJson) == pipelineJson # PipeNoCompile
\* the compiled artifact of a raw pipeline
Compile(pipelineJson) == [compiledFrom |-> pipelineJson]

\* ------------------------------------------------------ persisted snapshot
createInitialState(prompt) ==
  [prompt |-> prompt,
   additionalInstructions |-> None,
   phase |-> "idle",
   resumePhase |-> None,
   agent |-> None,
   pipeline |-> None,
   pausedReason |-> None]

\* what a caller stores and hands back: the snapshot with the fields that
\* normalizeState treats as possibly missing made optional
Persist(state) == Some([state EXCEPT !.prompt = Some(state.prompt),
                                     !.phase = Some(state.phase)])

\* normalizeState that accepts a snapshot without a usable prompt and goes on
\* with an empty one
normalizeStateLenient(raw) ==
  IF ~IsSome(raw)
  THEN [ok |-> TRUE, state |-> createInitialState(<<>>)]
  ELSE LET snapshot == Val(raw)
       IN [ok |-> TRUE,
           state |-> [prompt |-> IF IsSome(snapshot.prompt)
                                 THEN Val(snapshot.prompt) ELSE <<>>,
                      additionalInstructions |-> snapshot.additionalInstructions,
                      phase |-> IF IsSome(snapshot.phase)
                                THEN Val(snapshot.phase) ELSE "idle",
                      resumePhase |-> snapshot.resumePhase,
                      agent |-> snapshot.agent,
                      pipeline |-> snapshot.pipeline,
                      pausedReason |-> snapshot.pausedReason]]

\* normalizeState(state) without fallback prompt, as continuePrompt calls it;
\* ok = FALSE stands for the thrown error
normalizeState(raw) ==
  IF ~IsSome(raw)
  THEN [ok |-> FALSE, state |-> createInitialState(<<>>)]
  ELSE LET snapshot == Val(raw)
       IN IF ~IsSome(snapshot.prompt) \/ Val(snapshot.prompt) = <<>>
          THEN [ok |-> FALSE, state |-> createInitialState(<<>>)]
          ELSE [ok |-> TRUE,
                state |-> [prompt |-> Val(snapshot.prompt),
                           additionalInstructions |-> snapshot.additionalInstructions,
                           phase |-> IF IsSome(snapshot.phase)
                                     THEN Val(snapshot.phase) ELSE "idle",
                           resumePhase |-> snapshot.resumePhase,
                           agent |-> snapshot.agent,
                           pipeline |-> snapshot.pipeline,
                           pausedReason |-> snapshot.pausedReason]]

cloneState(state) ==
  [prompt |-> state.prompt,
   additionalInstructions |-> state.additionalInstructions,
   phase |-> state.phase,
   resumePhase |-> state.resumePhase,
   agent |-> state.agent,
   pipeline |-> state.pipeline,
   pausedReason |-> state.pausedReason]

\* -------------------------------------------------------- control requests
MsgStr(s) == [t |-> "str", s |-> s, n |-> 0]
MsgNum(n) == [t |-> "num", s |-> <<>>, n |-> n]
MsgNull == [t |-> "null", s |-> <<>>, n |-> 0]

stringifyInstruction(message) ==
  IF message.t = "str"
  THEN LET trimmed == Trim(message.s)
       IN IF Len(trimmed) > 0 THEN Some(trimmed) ELSE None
  ELSE IF message.t = "num" THEN Some(<<ToString(message.n)>>)
  ELSE None

Pause(reason) == [type |-> "pause", reason |-> reason, messages |-> <<>>]
Resume == [type |-> "resume", reason |-> None, messages |-> <<>>]
AddMessages(messages) == [type |-> "addMessages", reason |-> None, messages |-> messages]

\* request.messages.map(stringifyInstruction).filter(non-empty string)
RECURSIVE Additions(_)
Additions(messages) ==
  IF messages = <<>> THEN <<>>
  ELSE LET value == stringifyInstruction(Head(messages))
       IN (IF IsSome(value) /\ Len(Val(value)) > 0 THEN <<Val(value)>> ELSE <<>>)
          \o Additions(Tail(messages))

\* faulty variant: a pause that does not remember the phase it interrupts
applyPauseForgetting(next, request) ==
  [next EXCEPT !.phase = "paused",
               !.pausedReason = request.reason]

\* faulty variant: a pause that remembers the phase it finds, paused included
applyPauseOverwriting(next, request) ==
  [next EXCEPT !.resumePhase = Some(next.phase),
               !.phase = "paused",
               !.pausedReason = request.reason]

applyPause(next, request) ==
  [next EXCEPT !.resumePhase = IF next.phase # "paused" THEN Some(next.phase) ELSE @,
               !.phase = "paused",
               !.pausedReason = request.reason]

\* faulty variant: a resume that forgets the remembered phase
applyResumeToIdle(next, request) ==
  IF next.phase = "paused"
  THEN [next EXCEPT !.phase = "idle", !.resumePhase = None, !.pausedReason = None]
  ELSE next

applyResume(next, request) ==
  IF next.phase = "paused"
  THEN [next EXCEPT !.phase = IF IsSome(next.resumePhase)
                              THEN Val(next.resumePhase) ELSE "idle",
                    !.resumePhase = None,
                    !.pausedReason = None]
  ELSE next

\* faulty variant: new instructions that keep the stored pipeline
applyAddMessagesKeepingPipeline(next, request) ==
  LET additions == Additions(request.messages)
  IN IF Len(additions) = 0
     THEN next
     ELSE [next EXCEPT !.additionalInstructions =
                          Some((IF IsSome(@) THEN Val(@) ELSE <<>>) \o additions),
                       !.agent = None,
                       !.phase = "idle"]

applyAddMessages(next, request) ==
  LET additions == Additions(request.messages)
  IN IF Len(additions) = 0
     THEN next
     ELSE [next EXCEPT !.additionalInstructions =
                          Some((IF IsSome(@) THEN Val(@) ELSE <<>>) \o additions),
                       !.agent = None,
                       !.pipeline = None,
                       !.phase = "idle"]

applyControlRequest(next, request) ==
  IF request.type = "pause" THEN applyPause(next, request)
  ELSE IF request.type = "resume" THEN applyResume(next, request)
  ELSE IF request.type = "addMessages" THEN applyAddMessages(next, request)
  ELSE next

RECURSIVE applyControlRequests(_, _)
applyControlRequests(state, requests) ==
  IF requests = <<>> THEN state
  ELSE applyControlRequests(applyControlRequest(state, Head(requests)),
                            Tail(requests))

\* `${index + 1}. ${instruction}` joined by "\n"
RECURSIVE NumberedInstructions(_, _)
NumberedInstructions(instructions, index) ==
  IF index > Len(instructions) THEN <<>>
  ELSE <<ToString(index), ". ">> \o instructions[index]
       \o (IF index < Len(instructions) THEN <<"\n">> ELSE <<>>)
       \o NumberedInstructions(instructions, index + 1)

composePrompt(state) ==
  IF ~IsSome(state.additionalInstructions)
     \/ Len(Val(state.additionalInstructions)) = 0
  THEN state.prompt
  ELSE state.prompt \o <<"\n\nAdditional instructions:\n">>
       \o NumberedInstructions(Val(state.additionalInstructions), 1)

PendingOf(state) ==
  IF IsSome(state.agent) THEN Val(state.agent).pendingQuestion ELSE None

\* JavaScript truthiness of an optional string
Truthy(o) == IsSome(o) /\ Len(Val(o)) > 0

describePhase(state) ==
  CASE state.phase = "idle" -> <<"Idle">>
    [] state.phase = "acting" -> <<"Working">>
    [] state.phase = "awaiting-user" ->
         IF Truthy(PendingOf(state))
         THEN <<"Awaiting user: ">> \o Val(PendingOf(state))
         ELSE <<"Awaiting user">>
    [] state.phase = "complete" -> <<"Complete">>
    [] state.phase = "paused" ->
         IF Truthy(state.pausedReason)
         THEN <<"Paused: ">> \o Val(state.pausedReason)
         ELSE <<"Paused">>
    [] state.phase = "error" -> <<"Error">>
    [] OTHER -> <<"Unknown">>

\* faulty variant: a returned value that reports a paused snapshot as finished
buildAgentStateHidingPause(conversationId, state, statusOverride, isCompleteOverride) ==
  [id |-> conversationId,
   state |-> state,
   status |-> IF IsSome(statusOverride) THEN Val(statusOverride)
              ELSE describePhase(state),
   isPaused |-> FALSE,
   isComplete |-> IF IsSome(isCompleteOverride) THEN Val(isCompleteOverride)
                  ELSE state.phase \in {"complete", "paused"}]

buildAgentState(conversationId, state, statusOverride, isCompleteOverride) ==
  [id |-> conversationId,
   state |-> state,
   status |-> IF IsSome(statusOverride) THEN Val(statusOverride)
              ELSE describePhase(state),
   isPaused |-> state.phase = "paused",
   isComplete |-> IF IsSome(isCompleteOverride) THEN Val(isCompleteOverride)
                  ELSE state.phase = "complete" /\ ~Truthy(state.pausedReason)]

\* ----------------------------------------------------------- tool dispatch
\* a function_call item of a model response
ToolCall(name, pipeline, final, text, audience, description, argsOk) ==
  [type |-> "function_call", name |-> name, pipeline |-> pipeline,
   final |-> final, text |-> text, audience |-> audience,
   description |-> description, argsOk |-> argsOk]

\* a candidate passed as params.pipeline: an object, or a string holding JSON
\* text (json = None: text that JSON.parse rejects)
CandObject(json) == Some([form |-> "object", json |-> Some(json)])
CandString(json) == Some([form |-> "string", json |-> Some(json)])
CandBadJson == Some([form |-> "string", json |-> None])

\* names of analyzeTools
browserToolNames == {"querySelector", "querySelectorAll", "goto", "click", "type", "url"}

EmptyWorkingState ==
  [emittedPipeline |-> None,
   pendingQuestion |-> None,
   outputData |-> None,
   chatMessages |-> <<>>,
   verification |-> None,
   finishRequested |-> None,
   lastTool |-> None]

\* faulty variant: the candidate is handed to the compiler before the schema
\* validator has seen it
validateAndCompilePipelineCompileFirst(candidate) ==
  LET failure(threw, compiled, errors) ==
        [threw |-> threw, success |-> FALSE, raw |-> None, pipeline |-> None,
         compiled |-> compiled, errors |-> errors]
  IN IF ~IsSome(candidate) THEN failure(TRUE, FALSE, None)
     ELSE IF ~IsSome(Val(candidate).json) THEN failure(TRUE, FALSE, None)
     ELSE LET pipelineJson == Val(Val(candidate).json)
          IN IF pipelineJson.t # "obj" THEN failure(TRUE, FALSE, None)
             ELSE IF ~hasPipeline(pipelineJson)
             THEN failure(FALSE, TRUE, Some(<<"compiler error">>))
             ELSE IF ~validatePipelineSchema(pipelineJson)
             THEN failure(FALSE, TRUE, Some(<<"must NOT have additional properties">>))
             ELSE [threw |-> FALSE, success |-> TRUE,
                   raw |-> Some(pipelineJson),
                   pipeline |-> Some(Compile(pipelineJson)),
                   compiled |-> TRUE, errors |-> None]

\* threw = TRUE: an Error is thrown; otherwise success tells the verdict,
\* errors is the list returned with a failure, and compiled tells whether
\* pipelineProvider.compile was called
validateAndCompilePipeline(candidate) ==
  LET failure(threw, compiled, errors) ==
        [threw |-> threw, success |-> FALSE, raw |-> None, pipeline |-> None,
         compiled |-> compiled, errors |-> errors]
  IN IF ~IsSome(candidate) THEN failure(TRUE, FALSE, None)
     ELSE IF ~IsSome(Val(candidate).json) THEN failure(TRUE, FALSE, None)
     ELSE LET pipelineJson == Val(Val(candidate).json)
          IN IF pipelineJson.t # "obj" THEN failure(TRUE, FALSE, None)
             ELSE IF ~validatePipelineSchema(pipelineJson)
             THEN failure(FALSE, FALSE, Some(<<"must NOT have additional properties">>))
             ELSE IF ~hasPipeline(pipelineJson)
             THEN failure(FALSE, TRUE, Some(<<"compiler error">>))
             ELSE [threw |-> FALSE, success |-> TRUE,
                   raw |-> Some(pipelineJson),
                   pipeline |-> Some(Compile(pipelineJson)),
                   compiled |-> TRUE, errors |-> None]

Returned(ws, out) == [ws |-> ws, threw |-> FALSE, out |-> out]
Thrown(ws, message) == [ws |-> ws, threw |-> TRUE, out |-> message]

handleVerify(ws, call, note) ==
  LET result == validateAndCompilePipeline(call.pipeline)
  IN IF result.threw THEN Thrown(ws, <<"pipeline must be valid">>)
     ELSE IF ~result.success
     THEN Returned([ws EXCEPT !.verification = Some([success |-> FALSE, note |-> note])],
                   <<"{success:false}">>)
     ELSE Returned([ws EXCEPT !.verification = Some([success |-> TRUE, note |-> note])],
                   <<"{success:true}">>)

\* faulty variant: only the first emission of an exchange is recorded
handleEmitPipelineOnce(ws, call) ==
  LET result == validateAndCompilePipeline(call.pipeline)
  IN IF result.threw THEN Thrown(ws, <<"pipeline must be valid">>)
     ELSE IF ~result.success THEN Returned(ws, <<"{success:false}">>)
     ELSE Returned([ws EXCEPT
                      !.emittedPipeline =
                         IF IsSome(@) THEN @
                         ELSE Some([raw |-> Val(result.raw),
                                    pipeline |-> Val(result.pipeline)]),
                      !.finishRequested = IF IsSome(call.final) THEN call.final
                                          ELSE Some(TRUE)],
                   <<"{success:true}">>)

handleEmitPipeline(ws, call) ==
  LET result == validateAndCompilePipeline(call.pipeline)
  IN IF result.threw THEN Thrown(ws, <<"pipeline must be valid">>)
     ELSE IF ~result.success THEN Returned(ws, <<"{success:false}">>)
     ELSE Returned([ws EXCEPT
                      !.emittedPipeline = Some([raw |-> Val(result.raw),
                                                pipeline |-> Val(result.pipeline)]),
                      !.finishRequested = IF IsSome(call.final) THEN call.final
                                          ELSE Some(TRUE)],
                   <<"{success:true}">>)

\* faulty variant: the question is recorded as received, untrimmed
handleRequestUserInputUntrimmed(ws, call) ==
  LET rawQuestion == Trim(call.text)
  IN IF Len(rawQuestion) = 0 THEN Thrown(ws, <<"question is required">>)
     ELSE Returned([ws EXCEPT !.pendingQuestion = Some(call.text),
                              !.finishRequested = Some(FALSE)],
                   <<"{acknowledged:true}">>)

handleRequestUserInput(ws, call) ==
  LET rawQuestion == Trim(call.text)
  IN IF Len(rawQuestion) = 0 THEN Thrown(ws, <<"question is required">>)
     ELSE Returned([ws EXCEPT !.pendingQuestion = Some(rawQuestion),
                              !.finishRequested = Some(FALSE)],
                   <<"{acknowledged:true}">>)

\* faulty variant: output data that is not final tells that the exchange is
\* not finished
handleProvideOutputDataHolding(ws, call) ==
  LET final == IsSome(call.final) /\ Val(call.final)
  IN Returned([ws EXCEPT !.outputData = Some([description |-> call.description,
                                              final |-> final]),
                         !.finishRequested = Some(final)],
              <<"{recorded:true}">>)

handleProvideOutputData(ws, call) ==
  LET final == IsSome(call.final) /\ Val(call.final)
  IN Returned([ws EXCEPT !.outputData = Some([description |-> call.description,
                                              final |-> final]),
                         !.finishRequested = IF final THEN Some(TRUE) ELSE @],
              <<"{recorded:true}">>)

\* faulty variant: a chat message also tells that the exchange is not finished
handleChatWithUserHolding(ws, call) ==
  Returned([ws EXCEPT !.chatMessages =
              Append(@, [message |-> call.text,
                         audience |-> IF call.audience = Some("observers")
                                      THEN "observers" ELSE "user"]),
                      !.finishRequested = Some(FALSE)],
           <<"{acknowledged:true}">>)

handleChatWithUser(ws, call) ==
  Returned([ws EXCEPT !.chatMessages =
              Append(@, [message |-> call.text,
                         audience |-> IF call.audience = Some("observers")
                                      THEN "observers" ELSE "user"])],
           <<"{acknowledged:true}">>)

\* functionsConfig.handle for the built-in tools (every name that is not a
\* browser tool); previousPipeline is the caller-supplied pipeline
handle(ws0, call, previousPipeline) ==
  IF ~call.argsOk THEN Thrown(ws0, <<"Unexpected token">>)
  ELSE LET ws == [ws0 EXCEPT !.lastTool = Some(call.name)]
       IN CASE call.name = "getNodeSchema" ->
                 IF call.text = <<"page::goto">> THEN Returned(ws, <<"{schema}">>)
                 ELSE Thrown(ws, <<"Node schema was not found">>)
            [] call.name = "getPreviousPipeline" ->
                 Returned(ws, Stringify(previousPipeline))
            [] call.name = "compilePipeline" -> handleVerify(ws, call, "compile")
            [] call.name = "runPipeline" -> handleVerify(ws, call, "run")
            [] call.name = "emitPipeline" -> handleEmitPipeline(ws, call)
            [] call.name = "requestUserInput" -> handleRequestUserInput(ws, call)
            [] call.name = "provideOutputData" -> handleProvideOutputData(ws, call)
            [] call.name = "chatWithUser" -> handleChatWithUser(ws, call)
            [] OTHER -> Thrown(ws, <<"Unsupported tool call">>)

\* ------------------------------------------------- conclusion of an exchange
\* one invocation of a caller callback
Note(cb, kind, text, pipe) == [cb |-> cb, kind |-> kind, text |-> text, pipe |-> pipe]
StatusNote(kind, text) == Note("onStatusUpdate", kind, text, None)

\* faulty variant: a vetoed start that reports the exchange as not finished
VetoedResultUnfinished ==
  [messages |-> <<>>, outputText |-> None, emittedPipeline |-> None,
   pendingQuestion |-> None, outputData |-> None, chatMessages |-> <<>>,
   verification |-> None, finishRequested |-> Some(FALSE), lastTool |-> None]

\* the AgentRunResult returned when the usage monitor vetoes the start
VetoedResult ==
  [messages |-> <<>>, outputText |-> None, emittedPipeline |-> None,
   pendingQuestion |-> None, outputData |-> None, chatMessages |-> <<>>,
   verification |-> None, finishRequested |-> None, lastTool |-> None]

\* the AgentRunResult built from the engine and the working record
AgentResult(messages, outputText, ws) ==
  [messages |-> messages, outputText |-> outputText,
   emittedPipeline |-> ws.emittedPipeline,
   pendingQuestion |-> ws.pendingQuestion,
   outputData |-> ws.outputData,
   chatMessages |-> ws.chatMessages,
   verification |-> ws.verification,
   finishRequested |-> ws.finishRequested,
   lastTool |-> ws.lastTool]

\* the stored copy of a message list: the provider copies it from snapshot to
\* snapshot and never reads its items, so the snapshot keeps its length
StoredMessages(messages) == Len(messages)

\* nextState.agent = {...}
agentArtifact(agentResult) ==
  [messages |-> StoredMessages(agentResult.messages),
   lastMessage |-> agentResult.outputText,
   lastTool |-> agentResult.lastTool,
   pendingQuestion |-> agentResult.pendingQuestion,
   outputData |-> agentResult.outputData,
   chatLog |-> IF Len(agentResult.chatMessages) > 0
               THEN Some(agentResult.chatMessages) ELSE None,
   lastVerification |-> agentResult.verification]

chatNotes(agentResult) ==
  [i \in 1..Len(agentResult.chatMessages) |->
     StatusNote("chat", <<"[chat:", agentResult.chatMessages[i].audience, "] ">>
                        \o agentResult.chatMessages[i].message)]

outputNotes(agentResult) ==
  IF IsSome(agentResult.outputData)
  THEN LET data == Val(agentResult.outputData)
       IN <<StatusNote(IF data.final THEN "output" ELSE "progress",
                       <<IF data.final THEN "Output: " ELSE "Progress: ">>
                       \o (IF IsSome(data.description) THEN Val(data.description)
                           ELSE <<"Data ready">>))>>
  ELSE <<>>

\* faulty variant: an emitted pipeline is looked at before a pending question
decideOutcomePipelineFirst(agentResult) ==
  IF IsSome(agentResult.emittedPipeline) THEN "pipeline"
  ELSE IF Truthy(agentResult.pendingQuestion) THEN "awaiting-user"
  ELSE IF IsSome(agentResult.outputData) /\ Val(agentResult.outputData).final THEN "output"
  ELSE IF agentResult.finishRequested = Some(FALSE) THEN "not-finished"
  ELSE "default"

\* which of the return paths of executePromptWorkflow is taken after the run
decideOutcome(agentResult) ==
  IF Truthy(agentResult.pendingQuestion) THEN "awaiting-user"
  ELSE IF IsSome(agentResult.emittedPipeline) THEN "pipeline"
  ELSE IF IsSome(agentResult.outputData) /\ Val(agentResult.outputData).final THEN "output"
  ELSE IF agentResult.finishRequested = Some(FALSE) THEN "not-finished"
  ELSE "default"

\* the notifications issued on the return path, after chat and output notes
outcomeNotes(agentResult, previousPipeline) ==
  LET path == decideOutcome(agentResult)
  IN IF path = "awaiting-user"
     THEN <<StatusNote("awaiting", <<"Awaiting user input: ">> \o Val(agentResult.pendingQuestion))>>
     ELSE IF path = "pipeline"
     THEN IF ~arePipelinesEqual(Some(previousPipeline),
                                Some(Val(agentResult.emittedPipeline).raw))
          THEN <<Note("onPipelineUpdate", "update", <<>>,
                      Some(Val(agentResult.emittedPipeline).pipeline)),
                 StatusNote("updated", <<"Pipeline updated">>)>>
          ELSE <<StatusNote("unchanged", <<"Pipeline unchanged">>)>>
     ELSE <<>>

\* faulty variant: the output notification is issued before the chat notes
postRunNotesOutputFirst(agentResult, previousPipeline) ==
  outputNotes(agentResult) \o chatNotes(agentResult)
  \o outcomeNotes(agentResult, previousPipeline)

\* all callback invocations made after runAgentInternal returned, in order
postRunNotes(agentResult, previousPipeline) ==
  chatNotes(agentResult) \o outputNotes(agentResult)
  \o outcomeNotes(agentResult, previousPipeline)

OrElse(o, default) == IF IsSome(o) THEN Val(o) ELSE default

\* the AiAgentConversationState returned after the run
postRunState(conversationId, state, agentResult, previousPipeline) ==
  LET path == decideOutcome(agentResult)
      withAgent == [state EXCEPT !.agent = Some(agentArtifact(agentResult))]
  IN CASE path = "awaiting-user" ->
            buildAgentState(conversationId,
                            [withAgent EXCEPT !.phase = "awaiting-user"],
                            Some(<<"Awaiting user input">>), Some(FALSE))
       [] path = "pipeline" ->
            buildAgentState(conversationId,
                            [withAgent EXCEPT
                               !.pipeline = Some([json |-> Some(Val(agentResult.emittedPipeline).raw),
                                                  messages |-> StoredMessages(agentResult.messages)]),
                               !.phase = "complete"],
                            Some(IF ~arePipelinesEqual(Some(previousPipeline),
                                        Some(Val(agentResult.emittedPipeline).raw))
                                 THEN <<"Pipeline updated">>
                                 ELSE <<"Pipeline unchanged">>),
                            Some(TRUE))
       [] path = "output" ->
            buildAgentState(conversationId,
                            [withAgent EXCEPT !.phase = "complete"],
                            Some(OrElse(Val(agentResult.outputData).description,
                                        <<"Output ready">>)),
                            Some(TRUE))
       [] path = "not-finished" ->
            buildAgentState(conversationId,
                            [withAgent EXCEPT !.phase = "idle"],
                            Some(OrElse(agentResult.outputText, <<"Idle">>)),
                            Some(FALSE))
       [] OTHER ->
            buildAgentState(conversationId,
                            [withAgent EXCEPT !.phase = "complete"],
                            Some(OrElse(agentResult.outputText, <<"Complete">>)),
                            Some(TRUE))

\* ------------------------------------------------------------------- state
VARIABLES
  pc,            \* position of the call in progress
  calls,         \* calls made so far
  call,          \* parameters of the call in progress
  ret,           \* the AiAgentConversationState the caller holds (optional)
  retPrev,       \* previousPipeline of the call that returned ret
  nextState,     \* nextState of executePromptWorkflow
  workingState,  \* workingState of runAgentInternal
  history,       \* Conversation.#history
  output,        \* Conversation.#output (optional)
  round,         \* network rounds of this exchange
  attempt,       \* attempt of createResponseWithTemperatureFallback (1 or 2)
  items,         \* response items issued by the remote model so far
  cur,           \* the function call being handled (optional)
  result,        \* the AgentRunResult of runAgentInternal (optional)
  aborted,       \* abortController.signal.aborted
  log,           \* callback invocations of this exchange, in order
  usage,         \* usage events emitted in this exchange
  ctlLog,        \* control requests applied to the snapshot in progress
  heldCtl,       \* the last step applied to the snapshot held in ret
  pending,       \* control requests the caller has prepared for its next call
  mp,            \* the call of OpenAiModel.prompt/promptWithSchema in progress
  tasks,         \* exchanges running side by side, by handle
  validatorErrors, \* validate.errors of prompts/pipeline.ts (module level)
  rw,            \* the run of the Retry-Until-Valid workflow in progress
  eq,            \* a comparison of two pipelines by arePipelinesEqual
  tool,          \* the parameter schema of the pipeline tools and its compilation
  conv           \* a Conversation driven on its own (received: the responses
                 \* that held items; requests: the calls of responses.create)

\* the variables of one prompt/continuePrompt exchange and of its caller
exchangeVars == <<pc, calls, call, ret, retPrev, nextState, workingState, history,
                  output, round, attempt, items, cur, result, aborted,
                  log, usage, ctlLog, heldCtl, pending>>

\* the state of the runs that drive one component on its own
unitVars == <<rw, eq, tool, conv>>

\* the state beside that exchange
besideVars == <<mp, tasks, validatorErrors, unitVars>>

vars == <<pc, calls, call, ret, retPrev, nextState, workingState, history,
          output, round, attempt, items, cur, result, aborted,
          log, usage, ctlLog, heldCtl, pending, mp, tasks, validatorErrors,
          rw, eq, tool, conv>>

\* ------------------------------------------------------------------ inputs
ThePrompt == <<"go to example.com">>

ControlRequests ==
  {Pause(None), Pause(Some(<<"break">>)), Resume,
   AddMessages(<<MsgStr(<<" ", "also">>), MsgNum(0)>>),
   AddMessages(<<MsgStr(<<" ">>), MsgNull>>)}

\* the control requests of the callers of the exchange specification
ExchangeLists ==
  {<<>>, <<Pause(Some(<<"break">>))>>, <<Resume>>,
   <<AddMessages(<<MsgStr(<<" ", "also">>), MsgNum(0)>>)>>}

\* the pipeline the caller has deployed and passes as previousPipeline
PreviousPipelines == {PipeAB}

\* snapshots a caller may hand to continuePrompt
SampleAgent ==
  [messages |-> 0, lastMessage |-> Some(<<"done">>), lastTool |-> None,
   pendingQuestion |-> Some(<<"which", "page">>), outputData |-> None,
   chatLog |-> None, lastVerification |-> None]

SamplePipeline == [json |-> Some(PipeAB), messages |-> 0]

Snapshots ==
  {[prompt |-> ThePrompt, additionalInstructions |-> None, phase |-> p,
    resumePhase |-> rp,
    agent |-> IF stored THEN Some(SampleAgent) ELSE None,
    pipeline |-> IF stored THEN Some(SamplePipeline) ELSE None,
    pausedReason |-> pr] :
     p \in Phases, rp \in {None, Some("complete")}, stored \in BOOLEAN,
     pr \in {None, Some(<<"old">>)}}

Call0(name) == ToolCall(name, None, None, <<>>, None, None, TRUE)

\* the tool calls of the remote model in the exchanges about the artifact and
\* the clarification question
BuiltinCalls ==
  {[Call0("emitPipeline") EXCEPT !.pipeline = CandString(PipeBA), !.final = Some(FALSE)],
   [Call0("emitPipeline") EXCEPT !.pipeline = CandObject(PipeRev), !.final = Some(TRUE)],
   [Call0("emitPipeline") EXCEPT !.pipeline = CandObject(PipeBad)],
   [Call0("requestUserInput") EXCEPT !.text = <<"which", "page">>],
   [Call0("requestUserInput") EXCEPT !.text = <<" ", "sure", " ">>],
   [Call0("requestUserInput") EXCEPT !.text = <<" ">>],
   [Call0("provideOutputData") EXCEPT !.description = Some(<<"title">>), !.final = Some(TRUE)]}

\* the tool calls of the remote model in the exchanges about notifications
NotifyCalls ==
  {[Call0("chatWithUser") EXCEPT !.text = <<"note">>, !.audience = Some("observers")],
   [Call0("chatWithUser") EXCEPT !.text = <<"hello">>],
   [Call0("provideOutputData") EXCEPT !.description = Some(<<"title">>), !.final = Some(TRUE)],
   [Call0("provideOutputData") EXCEPT !.final = Some(FALSE)],
   [Call0("emitPipeline") EXCEPT !.pipeline = CandObject(PipeRev)],
   [Call0("emitPipeline") EXCEPT !.pipeline = CandObject(PipeAB)],
   [Call0("requestUserInput") EXCEPT !.text = <<"which", "page">>]}

BrowserCalls == {Call0("goto")}

\* ------------------------------------------------------------ history items
HistoryItem(type, content, toolCall, callId) ==
  [type |-> type, content |-> content, call |-> toolCall, call_id |-> callId]

InitialHistory(promptText, previousPipeline) ==
  <<HistoryItem("system", <<"agentPrompt">>, None, 0),
    HistoryItem("system", <<"Previous pipeline version:\n ">> \o Stringify(previousPipeline), None, 0),
    HistoryItem("user", <<"User request:\n ">> \o promptText, None, 0)>>

\* phase, resumePhase and pausedReason of a snapshot
PauseView(state) ==
  [phase |-> state.phase, resumePhase |-> state.resumePhase,
   pausedReason |-> state.pausedReason]

\* the effect of each request of the list, in order
RECURSIVE ControlTrace(_, _)
ControlTrace(state, reqs) ==
  IF reqs = <<>> THEN <<>>
  ELSE LET after == applyControlRequest(state, Head(reqs))
       IN <<[type |-> Head(reqs).type, before |-> PauseView(state),
             after |-> PauseView(after),
             hadAgent |-> IsSome(state.agent) /\ IsSome(state.pipeline),
             effective |-> Len(Additions(Head(reqs).messages)) > 0,
             cleared |-> ~IsSome(after.agent) /\ ~IsSome(after.pipeline),
             same |-> after = state,
             reason |-> IF Head(reqs).type = "pause" THEN Head(reqs).reason ELSE None,
             frame |-> [after EXCEPT !.phase = state.phase,
                                     !.resumePhase = state.resumePhase,
                                     !.pausedReason = state.pausedReason] = state]>>
          \o ControlTrace(after, Tail(reqs))

\* the last entry of a trace: what the next call of the caller follows on
LastEntry(trace) == IF trace = <<>> THEN <<>> ELSE <<trace[Len(trace)]>>

\* the record of the call in progress when no call has been made
NoCall ==
  [kind |-> "none", id |-> 0, from |-> createInitialState(ThePrompt),
   reqs |-> <<>>, prev |-> PipeEmpty, heldPrev |-> PipeEmpty,
   unmodified |-> FALSE]

\* OpenAiModel before any call of prompt or promptWithSchema
NoModelCall ==
  [pc |-> "idle", method |-> "none", messages |-> 0, outputText |-> None,
   proceed |-> None, result |-> None, starts |-> 0, ends |-> 0, requests |-> 0]

\* createPipelineToolSchema not called yet
NoSchema == [pc |-> "idle", genericNodeDefs |-> None, schema |-> None, compiles |-> None]

\* no Conversation constructed
NoConversation ==
  [pc |-> "none", history |-> <<>>, output |-> None, response |-> <<>>,
   received |-> <<>>, rounds |-> 0, calls |-> 0, notified |-> 0,
   requests |-> <<>>, aborted |-> FALSE, attempt |-> 0, error |-> None,
   added |-> 0, starts |-> 0]

\* no comparison of pipelines asked for
NoComparison == [pc |-> "idle", first |-> None, second |-> None, verdict |-> None]

\* the Retry-Until-Valid workflow before it is run
NoRetry ==
  [pc |-> "idle", plan |-> <<>>, invalid |-> 0, tries |-> 0, history |-> <<>>,
   output |-> None, artifact |-> None, raised |-> FALSE]

\* -------------------------------------------------------------------- Init
ProviderReady ==
  /\ pc = "ready"
  /\ calls = 0
  /\ call = NoCall
  /\ ret = None
  /\ retPrev = PipeEmpty
  /\ nextState = createInitialState(ThePrompt)
  /\ workingState = EmptyWorkingState
  /\ history = <<>>
  /\ output = None
  /\ round = 0
  /\ attempt = 0
  /\ items = 0
  /\ cur = None
  /\ result = None
  /\ aborted = FALSE
  /\ log = <<>>
  /\ usage = [starts |-> 0, ends |-> 0]
  /\ ctlLog = <<>>
  /\ heldCtl = <<>>
  /\ pending = <<>>
  /\ mp = NoModelCall
  /\ tasks = <<>>
  /\ validatorErrors = None

Init ==
  /\ ProviderReady
  /\ rw = NoRetry
  /\ eq = NoComparison
  /\ tool = NoSchema
  /\ conv = NoConversation

\* ----------------------------------------------------------------- actions
Callable == {"ready", "returned", "raised"}

\* a thrown error leaves the call; emitEnd tells whether the catch block of
\* runAgentInternal emits the usage end event on the way out
Raise(emitEnd) ==
  /\ pc' = "raised"
  /\ usage' = IF emitEnd THEN [usage EXCEPT !.ends = @ + 1] ELSE usage

\* executePromptWorkflow up to the call of runAgentInternal
BeginWorkflow(kind, conversationId, state, reqs, prev, lineage, unmodified) ==
  LET cloned == cloneState(state)
      applied == applyControlRequests(cloned, reqs)
      trace == lineage \o ControlTrace(cloned, reqs)
  IN /\ calls' = calls + 1
     /\ call' = [kind |-> kind, id |-> conversationId, from |-> state,
                 reqs |-> reqs, prev |-> prev, heldPrev |-> retPrev,
                 unmodified |-> unmodified]
     /\ ctlLog' = trace
     /\ workingState' = EmptyWorkingState
     /\ history' = <<>>
     /\ output' = None
     /\ round' = 0
     /\ attempt' = 0
     /\ cur' = None
     /\ result' = None
     /\ aborted' = FALSE
     /\ usage' = [starts |-> 0, ends |-> 0]
     /\ UNCHANGED items
     /\ IF applied.phase = "paused"
        THEN /\ log' = <<StatusNote("paused", describePhase(applied))>>
             /\ nextState' = applied
             /\ ret' = Some(buildAgentState(conversationId, applied, None, None))
             /\ retPrev' = prev
             /\ heldCtl' = LastEntry(trace)
             /\ pc' = "returned"
        ELSE IF applied.phase = "awaiting-user"
        THEN /\ log' = <<StatusNote("awaiting",
                            IF Truthy(PendingOf(applied))
                            THEN <<"Awaiting user input: ">> \o Val(PendingOf(applied))
                            ELSE <<"Awaiting user input">>)>>
             /\ nextState' = applied
             /\ ret' = Some(buildAgentState(conversationId, applied,
                                            Some(describePhase(applied)), Some(FALSE)))
             /\ retPrev' = prev
             /\ heldCtl' = LastEntry(trace)
             /\ pc' = "returned"
        ELSE /\ log' = <<StatusNote("working", <<"Agent working">>)>>
             /\ nextState' = [applied EXCEPT !.phase = "acting"]
             /\ pc' = "agent"
             /\ UNCHANGED <<ret, retPrev, heldCtl>>

\* prompt(page, params)
PromptWith(lists) ==
  /\ pc \in Callable
  /\ pending' = <<>>
  /\ UNCHANGED besideVars
  /\ calls < MaxCalls
  /\ \E reqs \in lists, prev \in PreviousPipelines :
       BeginWorkflow("prompt", calls + 1, createInitialState(ThePrompt),
                     reqs, prev, <<>>, FALSE)

Prompt == PromptWith(ExchangeLists)

\* continuePrompt(page, params): the caller hands back the snapshot it holds
ContinueWith(lists) ==
  /\ pc \in Callable
  /\ pending' = <<>>
  /\ UNCHANGED besideVars
  /\ calls < MaxCalls
  /\ IsSome(ret)
  /\ \E reqs \in lists, prev \in PreviousPipelines :
       LET raw == Persist(Val(ret).state)
           normalized == normalizeState(raw)
       IN IF ~normalized.ok
          THEN /\ Raise(FALSE)
               /\ calls' = calls + 1
               /\ UNCHANGED <<call, ret, retPrev, nextState, workingState,
                              history, output, round, attempt, items,
                              cur, result, aborted, log, ctlLog, heldCtl>>
          ELSE BeginWorkflow("continue", Val(ret).id, normalized.state, reqs, prev,
                             heldCtl, TRUE)

ContinuePrompt == ContinueWith(ExchangeLists)

\* the caller sets the cancellation signal while the call is suspended in an
\* await (the code between two awaits runs to completion)
Abort ==
  /\ UNCHANGED <<pending, besideVars>>
  /\ pc \in {"agent", "start", "network", "handler", "ended", "conclude"}
  /\ ~aborted
  /\ aborted' = TRUE
  /\ UNCHANGED <<pc, calls, call, ret, retPrev, nextState, workingState, history,
                 output, round, attempt, items, cur, result, log,
                 usage, ctlLog, heldCtl>>

\* runAgentInternal up to the construction of the Conversation
AgentStart ==
  /\ UNCHANGED <<pending, besideVars>>
  /\ pc = "agent"
  /\ IF aborted
     THEN /\ Raise(FALSE)
          /\ UNCHANGED <<history, result>>
     ELSE \E proceed \in BOOLEAN :
            /\ usage' = [usage EXCEPT !.starts = @ + 1]
            /\ IF proceed
               THEN /\ history' = InitialHistory(composePrompt(nextState), call.prev)
                    /\ pc' = "start"
                    /\ UNCHANGED result
               ELSE /\ result' = Some(VetoedResult)
                    /\ pc' = "conclude"
                    /\ UNCHANGED history
  /\ UNCHANGED <<calls, call, ret, retPrev, nextState, workingState, output,
                 round, attempt, items, cur, aborted, log,
                 ctlLog, heldCtl>>

\* Conversation.start() entered without looking at the cancellation signal
ConversationStartUnchecked ==
  /\ UNCHANGED <<pending, besideVars>>
  /\ pc = "start"
  /\ IF IsSome(output)
     THEN Raise(TRUE)
     ELSE pc' = "yield" /\ UNCHANGED usage
  /\ UNCHANGED <<calls, call, ret, retPrev, nextState, workingState, history,
                 output, round, attempt, items, cur, result, aborted,
                 log, ctlLog, heldCtl>>

\* Conversation.start() from its first line to the top of the loop
ConversationStart ==
  /\ UNCHANGED <<pending, besideVars>>
  /\ pc = "start"
  /\ IF aborted \/ IsSome(output)
     THEN Raise(TRUE)
     ELSE pc' = "yield" /\ UNCHANGED usage
  /\ UNCHANGED <<calls, call, ret, retPrev, nextState, workingState, history,
                 output, round, attempt, items, cur, result, aborted,
                 log, ctlLog, heldCtl>>

\* the body of the for-await loop, then start() from the yield to the request
SendRequest ==
  /\ UNCHANGED <<pending, besideVars>>
  /\ pc = "yield"
  /\ IF aborted
     THEN /\ Raise(TRUE)
          /\ UNCHANGED <<round, attempt>>
     ELSE /\ pc' = "network"
          /\ round' = round + 1
          /\ attempt' = 1
          /\ UNCHANGED usage
  /\ UNCHANGED <<calls, call, ret, retPrev, nextState, workingState, history,
                 output, items, cur, result, aborted, log, ctlLog,
                 heldCtl>>

\* the remote model answers the request
ReceiveResponse ==
  /\ UNCHANGED <<pending, besideVars>>
  /\ pc = "network"
  /\ ~aborted
  /\ pc' = "items"
  /\ UNCHANGED <<calls, call, ret, retPrev, nextState, workingState, history,
                 output, round, attempt, items, cur, result, aborted,
                 log, usage, ctlLog, heldCtl>>

\* the request is rejected: createResponseWithTemperatureFallback retries once
\* without temperature when the first attempt is rejected as unsupported
\* temperature, any other rejection propagates
RejectRequest ==
  /\ UNCHANGED <<pending, besideVars>>
  /\ pc = "network"
  /\ \E unsupportedTemperature \in BOOLEAN :
       /\ aborted => ~unsupportedTemperature
       /\ IF unsupportedTemperature /\ attempt = 1
          THEN /\ attempt' = 2
                    /\ UNCHANGED <<pc, usage>>
          ELSE /\ Raise(TRUE)
               /\ UNCHANGED attempt
  /\ UNCHANGED <<calls, call, ret, retPrev, nextState, workingState, history,
                 output, round, items, cur, result, aborted, log,
                 ctlLog, heldCtl>>

\* the next item of the response is a function call: it is appended and its
\* handler starts
PushFunctionCallOf(toolCalls) ==
  /\ UNCHANGED <<pending, besideVars>>
  /\ pc = "items"
  /\ items < MaxItems
  /\ \E c \in toolCalls :
       /\ history' = Append(history, HistoryItem("function_call", <<>>, Some(c), items + 1))
       /\ cur' = Some(c)
  /\ items' = items + 1
  /\ pc' = "handler"
  /\ UNCHANGED <<calls, call, ret, retPrev, nextState, workingState, output,
                 round, attempt, result, aborted, log,
                 usage, ctlLog, heldCtl>>

PushFunctionCall == PushFunctionCallOf(BuiltinCalls)

\* the next item is neither a function call nor a message (e.g. reasoning)
PushOtherItem ==
  /\ UNCHANGED <<pending, besideVars>>
  /\ pc = "items"
  /\ items < MaxItems
  /\ history' = Append(history, HistoryItem("reasoning", <<>>, None, items + 1))
  /\ items' = items + 1
  /\ UNCHANGED <<pc, calls, call, ret, retPrev, nextState, workingState, output,
                 round, attempt, cur, result, aborted, log,
                 usage, ctlLog, heldCtl>>

\* faulty variant: the emitPipeline handler hands the pipeline to
\* onPipelineUpdate as soon as it has accepted it
FinishBuiltinCallEager ==
  /\ UNCHANGED <<pending, besideVars>>
  /\ pc = "handler"
  /\ Val(cur).name \notin browserToolNames \/ ~Val(cur).argsOk
  /\ LET done == handle(workingState, Val(cur), call.prev)
     IN /\ workingState' = done.ws
        /\ log' = IF done.ws.emittedPipeline # workingState.emittedPipeline
                  THEN Append(log, Note("onPipelineUpdate", "update", <<>>,
                                        Some(Val(done.ws.emittedPipeline).pipeline)))
                  ELSE log
        /\ history' = Append(history,
              HistoryItem("function_call_output",
                          IF done.threw
                          THEN <<"Error while executing function: ">> \o done.out
                          ELSE done.out,
                          None, items))
  /\ cur' = None
  /\ pc' = "items"
  /\ UNCHANGED <<calls, call, ret, retPrev, nextState, output, round, attempt,
                 items, result, aborted, usage, ctlLog, heldCtl>>

\* faulty variant: an exception of the handler leaves start()
FinishBuiltinCallRaising ==
  /\ UNCHANGED <<pending, besideVars>>
  /\ pc = "handler"
  /\ Val(cur).name \notin browserToolNames \/ ~Val(cur).argsOk
  /\ LET done == handle(workingState, Val(cur), call.prev)
     IN /\ workingState' = done.ws
        /\ IF done.threw
           THEN /\ Raise(TRUE)
                /\ UNCHANGED <<history, cur, log>>
           ELSE /\ history' = Append(history,
                       HistoryItem("function_call_output", done.out, None, items))
                /\ cur' = None
                /\ pc' = "items"
                /\ UNCHANGED <<log, usage>>
  /\ UNCHANGED <<calls, call, ret, retPrev, nextState, output, round, attempt,
                 items, result, aborted, ctlLog, heldCtl>>

\* a tool handler other than a browser tool returns or throws (a call whose
\* arguments do not parse throws whatever its name); the result item is
\* appended
FinishBuiltinCall ==
  /\ UNCHANGED <<pending, besideVars>>
  /\ pc = "handler"
  /\ Val(cur).name \notin browserToolNames \/ ~Val(cur).argsOk
  /\ LET done == handle(workingState, Val(cur), call.prev)
     IN /\ workingState' = done.ws
        /\ history' = Append(history,
              HistoryItem("function_call_output",
                          IF done.threw
                          THEN <<"Error while executing function: ">> \o done.out
                          ELSE done.out,
                          None, items))
  /\ cur' = None
  /\ pc' = "items"
  /\ UNCHANGED <<calls, call, ret, retPrev, nextState, output, round, attempt, items, result, aborted, log, usage, ctlLog,
                 heldCtl>>

\* a browser tool goes through callFunctionWithTelemetry: the action executor
\* returns or throws, and the status model may narrate intent and outcome
FinishBrowserCall ==
  /\ UNCHANGED <<pending, besideVars>>
  /\ pc = "handler"
  /\ Val(cur).name \in browserToolNames
  /\ Val(cur).argsOk
  /\ \E ok \in BOOLEAN, narration \in {"none", "both"} :
       /\ workingState' = [workingState EXCEPT !.lastTool = Some(Val(cur).name)]
       /\ log' = log
                 \o (IF narration # "none"
                     THEN <<StatusNote("narration", <<"intent">>)>> ELSE <<>>)
                 \o (IF narration = "both"
                     THEN <<StatusNote("narration", <<IF ok THEN "success" ELSE "failure">>)>>
                     ELSE <<>>)
       /\ history' = Append(history,
             HistoryItem("function_call_output",
                         IF ok THEN <<"{ok:true}">>
                         ELSE <<"Error while executing function: ">> \o <<"timeout">>,
                         None, items))
  /\ cur' = None
  /\ pc' = "items"
  /\ UNCHANGED <<calls, call, ret, retPrev, nextState, output, round, attempt, items, result, aborted, usage, ctlLog,
                 heldCtl>>

\* the next item is a message: it is appended, the terminal output is set and
\* start() ends
PushMessageOf(text) ==
  /\ UNCHANGED <<pending, besideVars>>
  /\ pc = "items"
  /\ history' = Append(history, HistoryItem("message", text, None, 0))
  /\ output' = Some(text)
  /\ pc' = "ended"
  /\ UNCHANGED <<calls, call, ret, retPrev, nextState, workingState, round,
                 attempt, items, cur, result, aborted, log,
                 usage, ctlLog, heldCtl>>

PushMessage == PushMessageOf(<<"done">>)

\* the response had no message item: back to the top of the loop
EndOfResponse ==
  /\ UNCHANGED <<pending, besideVars>>
  /\ pc = "items"
  /\ round < MaxRounds
  /\ IF aborted
     THEN Raise(TRUE)
     ELSE pc' = "yield" /\ UNCHANGED usage
  /\ UNCHANGED <<calls, call, ret, retPrev, nextState, workingState, history,
                 output, round, attempt, items, cur, result, aborted,
                 log, ctlLog, heldCtl>>

\* runAgentInternal after the loop: usage end event and the AgentRunResult
AgentEnd ==
  /\ UNCHANGED <<pending, besideVars>>
  /\ pc = "ended"
  /\ usage' = [usage EXCEPT !.ends = @ + 1]
  /\ result' = Some(AgentResult(history, output, workingState))
  /\ pc' = "conclude"
  /\ UNCHANGED <<calls, call, ret, retPrev, nextState, workingState, history,
                 output, round, attempt, items, cur, aborted,
                 log, ctlLog, heldCtl>>

\* executePromptWorkflow after runAgentInternal returned
Conclude ==
  /\ UNCHANGED <<pending, besideVars>>
  /\ pc = "conclude"
  /\ log' = log \o postRunNotes(Val(result), call.prev)
  /\ ret' = Some(postRunState(call.id, nextState, Val(result), call.prev))
  /\ nextState' = Val(ret').state
  /\ retPrev' = call.prev
  /\ ctlLog' = Append(ctlLog, [type |-> "run", before |-> PauseView(nextState),
                               after |-> PauseView(Val(ret').state),
                               hadAgent |-> FALSE, effective |-> FALSE,
                               cleared |-> FALSE, same |-> FALSE,
                               reason |-> None, frame |-> FALSE])
  /\ heldCtl' = LastEntry(ctlLog')
  /\ pc' = "returned"
  /\ UNCHANGED <<calls, call, workingState, history, output, round, attempt, items, cur, result, aborted, usage>>

Next ==
  \/ Prompt
  \/ ContinuePrompt
  \/ AgentStart
  \/ ConversationStart
  \/ SendRequest
  \/ ReceiveResponse
  \/ PushFunctionCall
  \/ FinishBuiltinCall
  \/ PushMessage
  \/ EndOfResponse
  \/ AgentEnd
  \/ Conclude

Spec == Init /\ [][Next]_vars

\* ------------------------------------------------- notification exchanges
\* Exchanges in which the remote model chats, reports output and drives the
\* browser, whose tools narrate through onStatusUpdate.
NotifyLists == {<<>>, <<Pause(Some(<<"break">>))>>}

PromptNotify == PromptWith(NotifyLists)

ContinueNotify == ContinueWith(NotifyLists)

PushFunctionCallNotify == PushFunctionCallOf(NotifyCalls \cup BrowserCalls)

NextNotify ==
  \/ PromptNotify
  \/ ContinueNotify
  \/ AgentStart
  \/ ConversationStart
  \/ SendRequest
  \/ ReceiveResponse
  \/ PushFunctionCallNotify
  \/ FinishBuiltinCall
  \/ FinishBrowserCall
  \/ PushMessage
  \/ EndOfResponse
  \/ AgentEnd
  \/ Conclude

SpecNotify == Init /\ [][NextNotify]_vars

\* ------------------------------------------------------ failing exchanges
\* Exchanges in which the caller may set the cancellation signal and the
\* remote model may reject a request.
FailureLists == {<<>>, <<Pause(None)>>}

FailureCalls ==
  {[Call0("chatWithUser") EXCEPT !.text = <<"hello">>],
   [Call0("emitPipeline") EXCEPT !.pipeline = CandObject(PipeRev)],
   Call0("goto")}

PromptFailure == PromptWith(FailureLists)

ContinueFailure == ContinueWith(FailureLists)

PushFunctionCallFailure == PushFunctionCallOf(FailureCalls)

NextFailure ==
  \/ PromptFailure
  \/ ContinueFailure
  \/ Abort
  \/ AgentStart
  \/ ConversationStart
  \/ SendRequest
  \/ ReceiveResponse
  \/ RejectRequest
  \/ PushFunctionCallFailure
  \/ PushOtherItem
  \/ FinishBuiltinCall
  \/ FinishBrowserCall
  \/ PushMessage
  \/ EndOfResponse
  \/ AgentEnd
  \/ Conclude

SpecFailure == Init /\ [][NextFailure]_vars

\* ---------------------------------------------- control-request specification
\* The caller holds an arbitrary snapshot and makes calls with arbitrary lists
\* of control requests; a call that reaches runAgentInternal is followed no
\* further here.
InitControl ==
  /\ pc = "returned"
  /\ calls = 0
  /\ call = NoCall
  /\ \E snapshot \in Snapshots :
       /\ ret = Some(buildAgentState(1, snapshot, None, None))
       /\ nextState = snapshot
  /\ retPrev = PipeEmpty
  /\ workingState = EmptyWorkingState
  /\ history = <<>>
  /\ output = None
  /\ round = 0
  /\ attempt = 0
  /\ items = 0
  /\ cur = None
  /\ result = None
  /\ aborted = FALSE
  /\ log = <<>>
  /\ usage = [starts |-> 0, ends |-> 0]
  /\ ctlLog = <<>>
  /\ heldCtl = <<>>
  /\ pending = <<>>
  /\ mp = NoModelCall
  /\ tasks = <<>>
  /\ validatorErrors = None
  /\ rw = NoRetry
  /\ eq = NoComparison
  /\ tool = NoSchema
  /\ conv = NoConversation

\* the caller adds a control request to the list of its next call; the
\* records of the call that has returned are dropped
Request ==
  /\ pc \in Callable
  /\ calls < MaxCalls
  /\ Len(pending) < MaxReqs
  /\ \E request \in ControlRequests : pending' = Append(pending, request)
  /\ UNCHANGED besideVars
  /\ call' = NoCall
  /\ ctlLog' = heldCtl
  /\ log' = <<>>
  /\ UNCHANGED <<pc, calls, ret, retPrev, nextState, workingState, history,
                 output, round, attempt, items, cur, result, aborted,
                 usage, heldCtl>>

\* what is left of a snapshot the caller did not keep whole: nothing (or a
\* value that is not an object), the snapshot without its prompt, the
\* snapshot with an empty prompt
DamagedSnapshots(state) ==
  {None,
   Some([Val(Persist(state)) EXCEPT !.prompt = None]),
   Some([Val(Persist(state)) EXCEPT !.prompt = Some(<<>>)])}

\* continuePrompt(page, params) with a snapshot that has no recoverable prompt
ContinueDamaged ==
  /\ pc \in Callable
  /\ pending' = <<>>
  /\ UNCHANGED besideVars
  /\ calls < MaxCalls
  /\ IsSome(ret)
  /\ \E raw \in DamagedSnapshots(Val(ret).state), prev \in PreviousPipelines :
       LET normalized == normalizeState(raw)
       IN IF ~normalized.ok
          THEN /\ Raise(FALSE)
               /\ calls' = calls + 1
               /\ call' = [NoCall EXCEPT !.kind = "damaged", !.id = Val(ret).id,
                                         !.reqs = pending, !.prev = prev]
               /\ ctlLog' = heldCtl
               /\ log' = <<>>
               /\ history' = <<>>
               /\ round' = 0
               /\ UNCHANGED <<ret, retPrev, nextState, workingState, output,
                              attempt, items, cur, result, aborted, heldCtl>>
          ELSE BeginWorkflow("damaged", Val(ret).id, normalized.state, pending,
                             prev, heldCtl, FALSE)

PromptControl == PromptWith({pending})

ContinueControl == ContinueWith({pending})

NextControl == Request \/ PromptControl \/ ContinueControl \/ ContinueDamaged

SpecControl == InitControl /\ [][NextControl]_vars

\* ------------------------------------------------- usage-monitor specification
\* One-round exchanges and calls of OpenAiModel.prompt / promptWithSchema
\* (lib/model.ts), each under a usage monitor that may veto.

\* number of input items #createInput makes of the context and the messages
ModelInputs == {1, 2}

\* output_text of a response: empty, JSON text, text that is not JSON
OutputTexts == {<<>>, <<"{}">>, <<"oops">>}

\* JSON.parse(outputText) returns
ParsesAsJson(text) == text = <<"{}">>

\* the caller calls prompt or promptWithSchema with its messages
ModelPrompt ==
  /\ pc \in Callable
  /\ mp.pc \in {"idle", "done", "raised"}
  /\ calls < MaxCalls
  /\ calls' = calls + 1
  /\ \E method \in {"prompt", "promptWithSchema"}, n \in ModelInputs :
       mp' = [NoModelCall EXCEPT !.pc = "start", !.method = method, !.messages = n]
  /\ UNCHANGED <<pc, call, ret, retPrev, nextState, workingState, history,
                 output, round, attempt, items, cur, result, aborted,
                 log, usage, ctlLog, heldCtl, pending, tasks, validatorErrors, unitVars>>

\* faulty variant: a vetoed start that is reported as an error
ModelStartRaising ==
  /\ mp.pc = "start"
  /\ \E proceed \in BOOLEAN :
       mp' = [mp EXCEPT !.starts = @ + 1,
                        !.proceed = Some(proceed),
                        !.pc = IF proceed THEN "request" ELSE "raised"]
  /\ UNCHANGED <<exchangeVars, tasks, validatorErrors, unitVars>>

\* emitStartChecked answers; a veto returns the input and no result
ModelStart ==
  /\ mp.pc = "start"
  /\ \E proceed \in BOOLEAN :
       mp' = [mp EXCEPT !.starts = @ + 1,
                        !.proceed = Some(proceed),
                        !.pc = IF proceed THEN "request" ELSE "done"]
  /\ UNCHANGED <<exchangeVars, tasks, validatorErrors, unitVars>>

\* the remote model answers: its output items are appended to the input
ModelRespond ==
  /\ mp.pc = "request"
  /\ \E text \in OutputTexts :
       mp' = [mp EXCEPT !.requests = @ + 1,
                        !.messages = @ + 1,
                        !.outputText = Some(text),
                        !.pc = "end"]
  /\ UNCHANGED <<exchangeVars, tasks, validatorErrors, unitVars>>

\* the request fails: the catch block emits the end event and rethrows
ModelReject ==
  /\ mp.pc = "request"
  /\ mp' = [mp EXCEPT !.requests = @ + 1, !.ends = @ + 1, !.pc = "raised"]
  /\ UNCHANGED <<exchangeVars, tasks, validatorErrors, unitVars>>

\* emitEndChecked answers; promptWithSchema then parses the text inside the
\* try block, so a text that is not JSON goes through the catch block
ModelEnd ==
  /\ mp.pc = "end"
  /\ \E proceed \in BOOLEAN :
       IF ~proceed
       THEN mp' = [mp EXCEPT !.ends = @ + 1, !.pc = "done"]
       ELSE IF mp.method = "promptWithSchema" /\ ~ParsesAsJson(Val(mp.outputText))
       THEN mp' = [mp EXCEPT !.ends = @ + 2, !.pc = "raised"]
       ELSE mp' = [mp EXCEPT !.ends = @ + 1, !.result = mp.outputText, !.pc = "done"]
  /\ UNCHANGED <<exchangeVars, tasks, validatorErrors, unitVars>>

UsageLists == {<<>>}

UsageCalls == {[Call0("emitPipeline") EXCEPT !.pipeline = CandObject(PipeRev)]}

PromptUsage == PromptWith(UsageLists)

ContinueUsage == ContinueWith(UsageLists)

PushFunctionCallUsage == PushFunctionCallOf(UsageCalls)

NextUsage ==
  \/ PromptUsage
  \/ ContinueUsage
  \/ AgentStart
  \/ ConversationStart
  \/ SendRequest
  \/ ReceiveResponse
  \/ PushFunctionCallUsage
  \/ FinishBuiltinCall
  \/ PushMessage
  \/ AgentEnd
  \/ Conclude
  \/ ModelPrompt
  \/ ModelStart
  \/ ModelRespond
  \/ ModelReject
  \/ ModelEnd

SpecUsage == Init /\ [][NextUsage]_vars

\* ---------------------------------------------------- concurrent exchanges
\* Two prompt calls with distinct conversation ids run side by side on one
\* provider instance. JavaScript runs each of them without interruption from
\* one await to the next, so a step below is the code between two awaits.
\* Each call owns its Conversation and its workingState (index.ts 1265-1275,
\* 1595-1605); validate.errors of prompts/pipeline.ts is shared by all.

Handles == {1, 2}

TaskPrompts == <<<<"open the first page">>, <<"open the second page">>>>

\* what the remote model asks for in these exchanges
ConcurrentCalls ==
  {[Call0("emitPipeline") EXCEPT !.pipeline = CandObject(PipeBad)],
   [Call0("emitPipeline") EXCEPT !.pipeline = CandObject(PipeRev)],
   [Call0("requestUserInput") EXCEPT !.text = <<"which", "page">>]}

ReadyTask ==
  [pc |-> "ready", prev |-> PipeEmpty, history |-> <<>>,
   ws |-> EmptyWorkingState, held |-> None, output |-> None,
   ret |-> None, notes |-> <<>>, unsettled |-> 0]

\* validate.errors after validate(pipeline): null when the pipeline is valid
SchemaErrors(pipelineJson) ==
  IF validatePipelineSchema(pipelineJson) THEN None
  ELSE Some(<<"must NOT have additional properties">>)

\* the pipeline a handler hands to validatePipelineSchema, if it gets there
Validated(c) ==
  IF /\ c.name \in {"emitPipeline", "compilePipeline", "runPipeline"}
     /\ IsSome(c.pipeline)
     /\ IsSome(Val(c.pipeline).json)
     /\ Val(Val(c.pipeline).json).t = "obj"
  THEN Val(c.pipeline).json
  ELSE None

\* faulty variant: the errors are read as they were before the validator ran
getPipelineValidationErrorsStale(before, after) == before

\* validate.errors as validateAndCompilePipeline reads it: the validator ran
\* in the same synchronous block, so it is the value that run has written
getPipelineValidationErrors(before, after) == after

\* what the handler returns or throws, with the errors it has read
HandlerOutcome(ws, c, prev, errorsRead) ==
  LET done == handle(ws, c, prev)
      pipelineJson == Validated(c)
  IN [ws |-> done.ws,
      content |-> IF done.threw
                  THEN <<"Error while executing function: ">> \o done.out
                  ELSE IF IsSome(pipelineJson) /\ ~validatePipelineSchema(Val(pipelineJson))
                  THEN done.out \o OrElse(errorsRead, <<>>)
                  ELSE done.out]

InitConcurrent ==
  /\ pc = "ready"
  /\ calls = 0
  /\ call = NoCall
  /\ ret = None
  /\ retPrev = PipeEmpty
  /\ nextState = createInitialState(ThePrompt)
  /\ workingState = EmptyWorkingState
  /\ history = <<>>
  /\ output = None
  /\ round = 0
  /\ attempt = 0
  /\ items = 0
  /\ cur = None
  /\ result = None
  /\ aborted = FALSE
  /\ log = <<>>
  /\ usage = [starts |-> 0, ends |-> 0]
  /\ ctlLog = <<>>
  /\ heldCtl = <<>>
  /\ pending = <<>>
  /\ mp = NoModelCall
  /\ tasks = [h \in Handles |-> ReadyTask]
  /\ validatorErrors = None
  /\ rw = NoRetry
  /\ eq = NoComparison
  /\ tool = NoSchema
  /\ conv = NoConversation

\* function calls served so far by a task
TaskCalls(t) ==
  LET served == SelectSeq(t.history, LAMBDA item : item.type = "function_call")
  IN [i \in DOMAIN served |-> Val(served[i].call)]

\* prompt(page, params) up to the first request of Conversation.start
TaskPrompt(h) ==
  /\ tasks[h].pc = "ready"
  /\ \E prev \in PreviousPipelines :
       tasks' = [tasks EXCEPT ![h] =
                   [@ EXCEPT !.pc = "network",
                             !.prev = prev,
                             !.history = InitialHistory(TaskPrompts[h], prev),
                             !.notes = <<StatusNote("working", <<"Agent working">>)>>]]
  /\ UNCHANGED <<exchangeVars, mp, validatorErrors, unitVars>>

\* the response holds a function call: the item is pushed and the built-in
\* handler runs up to its return
TaskCall(h) ==
  /\ tasks[h].pc = "network"
  /\ Len(TaskCalls(tasks[h])) < MaxItems
  /\ \E c \in ConcurrentCalls :
       LET t == tasks[h]
           pipelineJson == Validated(c)
           written == IF IsSome(pipelineJson) THEN SchemaErrors(Val(pipelineJson))
                      ELSE validatorErrors
           outcome == HandlerOutcome(t.ws, c, t.prev,
                        getPipelineValidationErrors(validatorErrors, written))
       IN /\ validatorErrors' = written
          /\ tasks' = [tasks EXCEPT ![h] =
                         [@ EXCEPT !.pc = "output",
                                   !.history = Append(@, HistoryItem("function_call", <<>>, Some(c),
                                                                     Len(TaskCalls(t)) + 1)),
                                   !.ws = outcome.ws,
                                   !.held = Some(outcome.content),
                                   !.unsettled = @ + 1]]
  /\ UNCHANGED <<exchangeVars, mp, unitVars>>

\* Conversation.start resumes after the handler: the result item is pushed
\* and the next request is sent
TaskOutput(h) ==
  /\ tasks[h].pc = "output"
  /\ tasks' = [tasks EXCEPT ![h] =
                 [@ EXCEPT !.pc = "network",
                           !.history = Append(@, HistoryItem("function_call_output",
                                                             Val(tasks[h].held), None,
                                                             Len(TaskCalls(tasks[h])))),
                           !.held = None,
                           !.unsettled = @ + 1]]
  /\ UNCHANGED <<exchangeVars, mp, validatorErrors, unitVars>>

\* the response holds a message: the item is pushed and the loop ends
TaskMessage(h) ==
  /\ tasks[h].pc = "network"
  /\ tasks' = [tasks EXCEPT ![h] =
                 [@ EXCEPT !.pc = "ended",
                           !.history = Append(@, HistoryItem("message", <<"done">>, None, 0)),
                           !.output = Some(<<"done">>),
                           !.unsettled = @ + 1]]
  /\ UNCHANGED <<exchangeVars, mp, validatorErrors, unitVars>>

\* runAgentInternal returns and executePromptWorkflow concludes
TaskConclude(h) ==
  /\ tasks[h].pc = "ended"
  /\ LET t == tasks[h]
         agentResult == AgentResult(t.history, t.output, t.ws)
         state == [createInitialState(TaskPrompts[h]) EXCEPT !.phase = "acting"]
     IN tasks' = [tasks EXCEPT ![h] =
                    [@ EXCEPT !.pc = "returned",
                              !.notes = @ \o postRunNotes(agentResult, t.prev),
                              !.ret = Some(postRunState(h, state, agentResult, t.prev))]]
  /\ UNCHANGED <<exchangeVars, mp, validatorErrors, unitVars>>

\* a promise returned by onMessages settles
TaskSettle(h) ==
  /\ tasks[h].unsettled > 0
  /\ tasks' = [tasks EXCEPT ![h].unsettled = @ - 1]
  /\ UNCHANGED <<exchangeVars, mp, validatorErrors, unitVars>>

ConcurrentPrompt == \E h \in Handles : TaskPrompt(h)

ConcurrentCall == \E h \in Handles : TaskCall(h)

ConcurrentOutput == \E h \in Handles : TaskOutput(h)

ConcurrentMessage == \E h \in Handles : TaskMessage(h)

ConcurrentConclude == \E h \in Handles : TaskConclude(h)

ConcurrentSettle == \E h \in Handles : TaskSettle(h)

NextConcurrent ==
  \/ ConcurrentPrompt
  \/ ConcurrentCall
  \/ ConcurrentOutput
  \/ ConcurrentMessage
  \/ ConcurrentConclude

SpecConcurrent == InitConcurrent /\ [][NextConcurrent]_vars

\* the same exchanges with a caller whose onMessages returns a promise
NextCallbacks ==
  \/ ConcurrentPrompt
  \/ ConcurrentCall
  \/ ConcurrentOutput
  \/ ConcurrentMessage
  \/ ConcurrentConclude
  \/ ConcurrentSettle

SpecCallbacks == InitConcurrent /\ [][NextCallbacks]_vars

\* --------------------------------------------------------------- type check
\* ------------------------------------------- the Retry-Until-Valid workflow
\* The workflow drives one Conversation to its terminal text, checks the
\* text (parse, schema, compiler) and, when a check fails, adds a diagnostic
\* message, clears the terminal output and drives the Conversation again.

\* the number of times the workflow drives the engine before it gives up
RetryCeiling == 2

\* Conversation.#pushMessage as called by Conversation.add
add(hist, message) == Append(hist, message)

\* faulty variant: the terminal output survives clearOutput()
clearOutputKeeping(out) == out

\* Conversation.clearOutput
clearOutput(out) == None

\* terminal texts that fail a check: text that is not JSON, a pipeline the
\* schema rejects, a pipeline the compiler rejects
InvalidOutputs ==
  {Val(CandBadJson), Val(CandString(PipeBad)), Val(CandString(PipeNoCompile))}

RECURSIVE SeqsOf(_, _)
SeqsOf(S, n) ==
  IF n = 0 THEN {<<>>}
  ELSE {Append(q, x) : q \in SeqsOf(S, n - 1), x \in S}

\* the terminal texts of the successive rounds: invalid ones, then a valid one
RetryPlans ==
  UNION {{Append(q, Val(CandString(PipeAB))) : q \in SeqsOf(InvalidOutputs, n)} : n \in 0..MaxInvalid}

\* a terminal text as the content of its message item
TextOf(text) == IF IsSome(text.json) THEN Stringify(Val(text.json)) ELSE <<"not json">>

\* the diagnostic of the check that rejected the terminal text
Diagnostic(text) ==
  IF ~IsSome(text.json) THEN <<"parse error">>
  ELSE IF ~validatePipelineSchema(Val(text.json)) THEN <<"validation errors">>
  ELSE <<"compile errors">>

\* parse, schema validation and compilation of a terminal text
PassesAll(text) ==
  /\ IsSome(text.json)
  /\ validatePipelineSchema(Val(text.json))
  /\ hasPipeline(Val(text.json))

\* the workflow is called on an engine bound to the generation prompt
RetryBegin ==
  /\ rw.pc = "idle"
  /\ \E plan \in RetryPlans :
       rw' = [NoRetry EXCEPT !.pc = "driving", !.plan = plan,
                             !.invalid = Len(plan) - 1,
                             !.history = <<HistoryItem("system", <<"generatePrompt">>, None, 0)>>]
  /\ UNCHANGED <<exchangeVars, mp, tasks, validatorErrors, eq, tool, conv>>

\* one iteration, first half: Conversation.start() driven to its terminal
\* text; start() asserts that no terminal output is set
RetryDrive ==
  /\ rw.pc = "driving"
  /\ IF IsSome(rw.output)
     THEN rw' = [rw EXCEPT !.pc = "returned", !.raised = TRUE]
     ELSE LET text == Head(rw.plan)
          IN rw' = [rw EXCEPT !.pc = "checking",
                              !.plan = Tail(rw.plan),
                              !.tries = rw.tries + 1,
                              !.history = Append(rw.history,
                                                 HistoryItem("message", TextOf(text), None, 0)),
                              !.output = Some(text)]
  /\ UNCHANGED <<exchangeVars, mp, tasks, validatorErrors, eq, tool, conv>>

\* one iteration, second half: the checks, then the artifact or a retry
RetryCheck ==
  /\ rw.pc = "checking"
  /\ LET text == Val(rw.output)
     IN IF PassesAll(text)
        THEN rw' = [rw EXCEPT !.pc = "returned",
                              !.artifact = Some(Compile(Val(text.json)))]
        ELSE rw' = [rw EXCEPT !.pc = IF rw.tries < RetryCeiling THEN "driving" ELSE "returned",
                              !.history = add(rw.history,
                                              HistoryItem("user", Diagnostic(text), None, 0)),
                              !.output = clearOutput(rw.output)]
  /\ UNCHANGED <<exchangeVars, mp, tasks, validatorErrors, eq, tool, conv>>

NextRetry == RetryBegin \/ RetryDrive \/ RetryCheck

SpecRetry == Init /\ [][NextRetry]_vars

\* --------------------------------------------- comparisons of pipelines
\* arePipelinesEqual applied to two optional pipelines as JSON.parse gives
\* them: objects whose keys come in any order and whose values are numbers,
\* arrays and objects.
ObjAB == JObj(<<Entry("a", JNum(1)), Entry("b", JNum(2))>>)
ObjBA == JObj(<<Entry("b", JNum(2)), Entry("a", JNum(1))>>)

NodeValues ==
  {JNum(1), ObjAB, ObjBA,
   JArr(<<JNum(1), JNum(2)>>), JArr(<<JNum(2), JNum(1)>>),
   JArr(<<ObjAB>>), JArr(<<ObjBA>>)}

\* pipelines of at most two steps; a step may carry any name JSON allows
ComparedPipelines ==
  {PipeEmpty}
  \cup {JObj(<<Entry(k, v)>>) : k \in {"a", "b"}, v \in NodeValues}
  \cup {JObj(<<Entry(ks[1], v), Entry(ks[2], w)>>) :
          ks \in {<<"a", "b">>, <<"b", "a">>}, v \in NodeValues, w \in NodeValues}
  \cup {JObj(<<Entry("__proto__", ObjAB)>>),
        JObj(<<Entry("a", JNum(1)), Entry("__proto__", ObjAB)>>)}

ComparedInputs == {None} \cup {Some(p) : p \in ComparedPipelines}

InitEqual ==
  /\ ProviderReady
  /\ rw = NoRetry
  /\ tool = NoSchema
  /\ conv = NoConversation
  /\ eq \in {[NoComparison EXCEPT !.pc = "given", !.first = first, !.second = second] :
              first \in ComparedInputs, second \in ComparedInputs}

Compare ==
  /\ eq.pc = "given"
  /\ eq' = [eq EXCEPT !.pc = "compared",
                      !.verdict = Some(arePipelinesEqual(eq.first, eq.second))]
  /\ UNCHANGED <<exchangeVars, mp, tasks, validatorErrors, rw, tool, conv>>

NextEqual == Compare

SpecEqual == InitEqual /\ [][NextEqual]_vars

\* ------------------------------------ the parameter schema of the tools
\* A set of schema definitions ($defs) is a function from the names of the
\* definitions to the names each definition refers to with '#/$defs/<name>'
\* (the package's own schema is valid: it refers to its own definitions only).
\* genericNodeSchema comes from the pipeline package; it is the schema handed
\* to the API as the output format (prompts/pipeline.ts, pipelineOutput).
DefinitionNames == {"GenericNode", "Input", "Output"}

DefinitionSets == UNION {[S -> SUBSET S] : S \in SUBSET DefinitionNames}

\* the $defs of a package whose genericNodeSchema describes GenericNode
PackageDefinitions ==
  {Some(defs) : defs \in {d \in DefinitionSets : "GenericNode" \in DOMAIN d}}

\* the $defs of any package, one without $defs included
AnyDefinitions == {None} \cup {Some(defs) : defs \in DefinitionSets}

\* pipelineStructureSchema: the name its additionalProperties refers to
pipelineStructureSchema == [type |-> "object", ref |-> "GenericNode"]

\* faulty variant: the schema carries the GenericNode definition alone
createPipelineToolSchemaTrimmed(genericNodeDefs) ==
  [type |-> "object",
   properties |-> [pipeline |-> pipelineStructureSchema,
                   label |-> [type |-> "string", ref |-> ""],
                   final |-> [type |-> "boolean", ref |-> ""],
                   reason |-> [type |-> "string", ref |-> ""]],
   required |-> {"pipeline"},
   additionalProperties |-> FALSE,
   defs |-> IF IsSome(genericNodeDefs) /\ "GenericNode" \in DOMAIN Val(genericNodeDefs)
            THEN Some([d \in {"GenericNode"} |-> Val(genericNodeDefs)[d]])
            ELSE None]

createPipelineToolSchema(genericNodeDefs) ==
  [type |-> "object",
   properties |-> [pipeline |-> pipelineStructureSchema,
                   label |-> [type |-> "string", ref |-> ""],
                   final |-> [type |-> "boolean", ref |-> ""],
                   reason |-> [type |-> "string", ref |-> ""]],
   required |-> {"pipeline"},
   additionalProperties |-> FALSE,
   defs |-> genericNodeDefs]

\* the names the schema refers to, in its properties and in its definitions
ReferredNames(schema) ==
  {schema.properties[q].ref : q \in {q \in DOMAIN schema.properties : schema.properties[q].ref # ""}}
  \cup (IF IsSome(schema.defs)
        THEN UNION {Val(schema.defs)[d] : d \in DOMAIN Val(schema.defs)}
        ELSE {})

\* '#/$defs/<name>' resolved against the schema itself
Resolves(schema, name) == IsSome(schema.defs) /\ name \in DOMAIN Val(schema.defs)

\* ajv.compile(schema) throws when a reference does not resolve
AjvCompiles(schema) == \A name \in ReferredNames(schema) : Resolves(schema, name)

InitSchemaOf(definitions) ==
  /\ ProviderReady
  /\ rw = NoRetry
  /\ eq = NoComparison
  /\ conv = NoConversation
  /\ tool \in {[NoSchema EXCEPT !.pc = "given", !.genericNodeDefs = defs] :
                defs \in definitions}

InitSchema == InitSchemaOf(PackageDefinitions)
InitSchemaAny == InitSchemaOf(AnyDefinitions)

CreateSchema ==
  /\ tool.pc = "given"
  /\ tool' = [tool EXCEPT !.pc = "created",
                          !.schema = Some(createPipelineToolSchema(tool.genericNodeDefs))]
  /\ UNCHANGED <<exchangeVars, mp, tasks, validatorErrors, rw, eq, conv>>

\* new Ajv({ strict: false }).compile(schema)
CompileSchema ==
  /\ tool.pc = "created"
  /\ tool' = [tool EXCEPT !.pc = "compiled",
                          !.compiles = Some(AjvCompiles(Val(tool.schema)))]
  /\ UNCHANGED <<exchangeVars, mp, tasks, validatorErrors, rw, eq, conv>>

NextSchema == CreateSchema \/ CompileSchema

SpecSchema == InitSchema /\ [][NextSchema]_vars
SpecSchemaAny == InitSchemaAny /\ [][NextSchema]_vars

\* ------------------------------------------------- end-to-end exchanges
\* Exchanges in which the remote model drives the browser, may emit a
\* pipeline, and ends with a message whose text may itself be a pipeline.
EndToEndCalls ==
  {Call0("goto"),
   [Call0("emitPipeline") EXCEPT !.pipeline = CandObject(PipeRev)],
   [Call0("emitPipeline") EXCEPT !.pipeline = CandObject(PipeAB)]}

TerminalTexts == {<<"done">>, Stringify(PipeRev)}

PromptEndToEnd == PromptWith({<<>>})
ContinueEndToEnd == ContinueWith({<<>>})
PushFunctionCallEndToEnd == PushFunctionCallOf(EndToEndCalls)
PushMessageEndToEnd == \E text \in TerminalTexts : PushMessageOf(text)

NextEndToEnd ==
  \/ PromptEndToEnd
  \/ ContinueEndToEnd
  \/ AgentStart
  \/ ConversationStart
  \/ SendRequest
  \/ ReceiveResponse
  \/ PushFunctionCallEndToEnd
  \/ FinishBuiltinCall
  \/ FinishBrowserCall
  \/ PushMessageEndToEnd
  \/ EndOfResponse
  \/ AgentEnd
  \/ Conclude

SpecEndToEnd == Init /\ [][NextEndToEnd]_vars

\* ------------------------------------------ exchanges with failing tools
\* Exchanges in which the remote model asks for tools that fail: a tool the
\* provider does not know, arguments that are not JSON, a pipeline string that
\* is not JSON, a node without schema, a browser action that throws.
FailingCalls ==
  {Call0("dropTable"),
   [Call0("emitPipeline") EXCEPT !.argsOk = FALSE],
   [Call0("goto") EXCEPT !.argsOk = FALSE],
   [Call0("compilePipeline") EXCEPT !.pipeline = CandBadJson],
   [Call0("getNodeSchema") EXCEPT !.text = <<"page::unknown">>],
   [Call0("getNodeSchema") EXCEPT !.text = <<"page::goto">>],
   Call0("goto")}

PushFunctionCallFailing == PushFunctionCallOf(FailingCalls)

NextToolFailure ==
  \/ PromptEndToEnd
  \/ Abort
  \/ AgentStart
  \/ ConversationStart
  \/ SendRequest
  \/ ReceiveResponse
  \/ PushFunctionCallFailing
  \/ FinishBuiltinCall
  \/ FinishBrowserCall
  \/ PushMessage
  \/ EndOfResponse
  \/ AgentEnd
  \/ Conclude

SpecToolFailure == Init /\ [][NextToolFailure]_vars

\* ------------------------------------------- a Conversation on its own
\* Conversation.start() driven by a caller that only iterates it, without
\* abortController, against a remote model that answers every request with
\* any list of items, or fails.
ItemTypes == {"function_call", "message", "reasoning"}

ResponseShapes == UNION {SeqsOf(ItemTypes, n) : n \in 0..MaxResponse}

\* the responses of the rounds beyond MaxRounds: none that makes the history
\* grow without ending the loop
LateShapes == {<<>>, <<"message">>}

\* the items of a response of the given shape; the remote model numbers its
\* calls (call_id)
ResponseOf(shape, callsBefore) ==
  [i \in 1..Len(shape) |->
     HistoryItem(shape[i], <<>>, None,
                 IF shape[i] = "function_call"
                 THEN callsBefore + Cardinality({j \in 1..i : shape[j] = "function_call"})
                 ELSE 0)]

CallsIn(response) == Len(SelectSeq(response, LAMBDA m : m.type = "function_call"))

\* new Conversation(config): the history is the prompt list
Construct ==
  /\ conv.pc = "none"
  /\ conv' = [conv EXCEPT !.pc = "new",
                          !.history = <<HistoryItem("system", <<"agentPrompt">>, None, 0)>>]
  /\ UNCHANGED <<exchangeVars, mp, tasks, validatorErrors, rw, eq, tool>>

\* start() from its first line to the first yield
ConvStart ==
  /\ conv.pc = "new"
  /\ conv' = [conv EXCEPT !.pc = IF IsSome(conv.output) THEN "raised" ELSE "loop"]
  /\ UNCHANGED <<exchangeVars, mp, tasks, validatorErrors, rw, eq, tool>>

\* from the yield to the request; the loop has no ceiling, and rounds counts
\* up to 'more than MaxRounds'
ConvSend ==
  /\ conv.pc = "loop"
  /\ conv' = [conv EXCEPT !.pc = "network",
                          !.rounds = IF @ <= MaxRounds THEN @ + 1 ELSE @]
  /\ UNCHANGED <<exchangeVars, mp, tasks, validatorErrors, rw, eq, tool>>

\* the response arrives
ConvReceive ==
  /\ conv.pc = "network"
  /\ \E shape \in IF conv.rounds <= MaxRounds THEN ResponseShapes ELSE LateShapes :
       LET response == ResponseOf(shape, conv.calls)
       IN conv' = [conv EXCEPT !.pc = "items",
                               !.response = response,
                               !.received = IF response = <<>> THEN @ ELSE Append(@, response),
                               !.calls = @ + CallsIn(response)]
  /\ UNCHANGED <<exchangeVars, mp, tasks, validatorErrors, rw, eq, tool>>

\* the request fails
ConvReject ==
  /\ conv.pc = "network"
  /\ conv' = [conv EXCEPT !.pc = "raised"]
  /\ UNCHANGED <<exchangeVars, mp, tasks, validatorErrors, rw, eq, tool>>

\* faulty variant: a message item does not end the loop over the items
ConvPushThrough ==
  /\ conv.pc = "items"
  /\ conv.response # <<>>
  /\ LET message == Head(conv.response)
     IN conv' = [conv EXCEPT
                   !.history = Append(@, message),
                   !.notified = @ + 1,
                   !.response = Tail(@),
                   !.output = IF message.type = "message" THEN Some(<<"output_text">>) ELSE @,
                   !.pc = IF message.type = "function_call" THEN "handler" ELSE "items"]
  /\ UNCHANGED <<exchangeVars, mp, tasks, validatorErrors, rw, eq, tool>>

\* the next item of the response: #pushMessage, then the handler is called
\* (function_call), or the output is set and the loops end (message)
ConvPush ==
  /\ conv.pc = "items"
  /\ conv.response # <<>>
  /\ LET message == Head(conv.response)
     IN conv' = [conv EXCEPT
                   !.history = Append(@, message),
                   !.notified = @ + 1,
                   !.response = IF message.type = "message" THEN <<>> ELSE Tail(@),
                   !.output = IF message.type = "message" THEN Some(<<"output_text">>) ELSE @,
                   !.pc = CASE message.type = "function_call" -> "handler"
                            [] message.type = "message" -> "ended"
                            [] OTHER -> "items"]
  /\ UNCHANGED <<exchangeVars, mp, tasks, validatorErrors, rw, eq, tool>>

\* faulty variant: a failed call leaves no result item
ConvHandledSilent ==
  /\ conv.pc = "handler"
  /\ \E ok \in BOOLEAN :
       conv' = [conv EXCEPT
                  !.history = IF ok
                              THEN Append(@, HistoryItem("function_call_output", <<"result">>,
                                                         None, Last(conv.history).call_id))
                              ELSE @,
                  !.notified = IF ok THEN @ + 1 ELSE @,
                  !.pc = "items"]
  /\ UNCHANGED <<exchangeVars, mp, tasks, validatorErrors, rw, eq, tool>>

\* the handler returns or throws: #pushMessage of the result item
ConvHandled ==
  /\ conv.pc = "handler"
  /\ \E ok \in BOOLEAN :
       conv' = [conv EXCEPT
                  !.history = Append(@, HistoryItem("function_call_output",
                                                    IF ok THEN <<"result">>
                                                    ELSE <<"Error while executing function: ">>,
                                                    None, Last(conv.history).call_id)),
                  !.notified = @ + 1,
                  !.pc = "items"]
  /\ UNCHANGED <<exchangeVars, mp, tasks, validatorErrors, rw, eq, tool>>

\* the items are exhausted and running is still true: back to the yield
ConvNextRound ==
  /\ conv.pc = "items"
  /\ conv.response = <<>>
  /\ conv' = [conv EXCEPT !.pc = "loop"]
  /\ UNCHANGED <<exchangeVars, mp, tasks, validatorErrors, rw, eq, tool>>

NextConversation ==
  \/ Construct
  \/ ConvStart
  \/ ConvSend
  \/ ConvReceive
  \/ ConvReject
  \/ ConvPush
  \/ ConvHandled
  \/ ConvNextRound

SpecConversation == Init /\ [][NextConversation]_vars

\* the caller keeps iterating start() and every request is answered or fails
SpecConversationFair == SpecConversation /\ WF_vars(NextConversation)

\* ------------------------------- a Conversation, its caller and its client
\* The caller constructs a Conversation with an abortController, iterates
\* start(), and between the steps of the generator adds messages, clears the
\* output, aborts and starts again.  The client (openAi.responses.create)
\* answers a request with a response or rejects it.

\* what responses.create throws: an Error (the client rejects with its
\* APIError classes or with the error of the transport), the words of its
\* message, its status
Rejection(isError, words, status) ==
  [isError |-> isError, words |-> words, status |-> status]

Rejections ==
  {Rejection(TRUE, {"temperature", "not supported"}, None),
   Rejection(TRUE, {"temperature", "not supported"}, Some(400)),
   Rejection(TRUE, {"temperature", "not supported"}, Some(500)),
   Rejection(TRUE, {"temperature"}, Some(400)),
   Rejection(TRUE, {"not supported"}, Some(400)),
   Rejection(TRUE, {}, None)}

\* faulty variant: the status of the rejection is not looked at
isUnsupportedTemperatureErrorAnyStatus(error) ==
  /\ error.isError
  /\ "temperature" \in error.words
  /\ "not supported" \in error.words

isUnsupportedTemperatureError(error) ==
  /\ error.isError
  /\ "temperature" \in error.words
  /\ "not supported" \in error.words
  /\ (error.status = None \/ error.status = Some(400))

\* the payload of a request and the state of options.signal when create is
\* called
Payload(c, temperature) ==
  [model |-> "model", input |-> c.history, temperature |-> temperature,
   tools |-> "tools", text |-> "text"]

RequestOf(c, payload, nth) ==
  [payload |-> payload, round |-> c.rounds + (IF nth = 1 THEN 1 ELSE 0),
   attempt |-> nth, signalled |-> c.aborted, added |-> c.added]

\* the responses of the remote model in these runs
EngineShapes ==
  {<<>>, <<"function_call">>, <<"message">>, <<"function_call", "message">>}

MisuseError == [kind |-> "misuse"]
AbortError == [kind |-> "abort"]
TransportError(error) == [kind |-> "transport", error |-> error]

\* #throwIfAborted, then the rest of the step
IfNotAborted(c, next) ==
  IF c.aborted THEN [c EXCEPT !.pc = "raised", !.error = Some(AbortError)] ELSE next

\* faulty variant: start() without the assertion on #output
EngStartUnguarded ==
  /\ conv.pc \in {"new", "ended", "raised"}
  /\ conv.starts <= MaxCalls
  /\ conv' = IfNotAborted([conv EXCEPT !.starts = @ + 1],
                          [conv EXCEPT !.starts = @ + 1, !.pc = "loop", !.error = None])
  /\ UNCHANGED <<exchangeVars, mp, tasks, validatorErrors, rw, eq, tool>>

\* start() and the first next() of its generator: the assertion, the two
\* checks of the signal, up to the yield
EngStart ==
  /\ conv.pc \in {"new", "ended", "raised"}
  /\ conv.starts <= MaxCalls
  /\ conv' = IF IsSome(conv.output)
             THEN [conv EXCEPT !.starts = @ + 1, !.pc = "raised",
                               !.error = Some(MisuseError)]
             ELSE IfNotAborted([conv EXCEPT !.starts = @ + 1],
                               [conv EXCEPT !.starts = @ + 1, !.pc = "loop",
                                            !.error = None])
  /\ UNCHANGED <<exchangeVars, mp, tasks, validatorErrors, rw, eq, tool>>

\* the caller, while it holds the control: add(message)
EngAdd ==
  /\ conv.pc \in {"new", "loop", "ended", "raised"}
  /\ conv.added + 1 < MaxItems
  /\ conv' = [conv EXCEPT
                !.history = add(@, HistoryItem("user", <<"added", conv.added + 1>>, None, 0)),
                !.notified = @ + 1,
                !.added = @ + 1]
  /\ UNCHANGED <<exchangeVars, mp, tasks, validatorErrors, rw, eq, tool>>

\* the caller: clearOutput()
EngClearOutput ==
  /\ conv.pc \in {"new", "loop", "ended", "raised"}
  /\ IsSome(conv.output)
  /\ conv' = [conv EXCEPT !.output = clearOutput(@)]
  /\ UNCHANGED <<exchangeVars, mp, tasks, validatorErrors, rw, eq, tool>>

\* abortController.abort(), by the caller or by anyone who holds the
\* controller, while the generator is suspended
EngAbort ==
  /\ conv.pc \in {"new", "loop", "network", "rejected", "handler"}
  /\ ~conv.aborted
  /\ conv' = [conv EXCEPT !.aborted = TRUE]
  /\ UNCHANGED <<exchangeVars, mp, tasks, validatorErrors, rw, eq, tool>>

\* from the yield: the check of the signal, then the first call of
\* responses.create of the round, with the temperature
EngSend ==
  /\ conv.pc = "loop"
  /\ conv.rounds < MaxRounds
  /\ conv' = IfNotAborted(conv,
                [conv EXCEPT !.pc = "network", !.rounds = @ + 1, !.attempt = 1,
                             !.requests = Append(@, RequestOf(conv, Payload(conv, TRUE), 1))])
  /\ UNCHANGED <<exchangeVars, mp, tasks, validatorErrors, rw, eq, tool>>

\* the response arrives
EngReceive ==
  /\ conv.pc = "network"
  /\ \E shape \in EngineShapes :
       LET response == ResponseOf(shape, conv.calls)
       IN conv' = [conv EXCEPT !.pc = "items",
                               !.response = response,
                               !.calls = @ + CallsIn(response)]
  /\ UNCHANGED <<exchangeVars, mp, tasks, validatorErrors, rw, eq, tool>>

\* responses.create rejects: the promise is rejected, the code that awaits it
\* has not run yet
EngReject ==
  /\ conv.pc = "network"
  /\ \E error \in Rejections :
       conv' = [conv EXCEPT !.pc = "rejected", !.error = Some(TransportError(error))]
  /\ UNCHANGED <<exchangeVars, mp, tasks, validatorErrors, rw, eq, tool>>

\* the code that awaits runs: the catch of the first attempt calls create
\* again without the temperature; every other rejection leaves start()
EngCatch ==
  /\ conv.pc = "rejected"
  /\ LET error == Val(conv.error).error
         first == Last(conv.requests).payload
     IN conv' = IF conv.attempt = 1 /\ isUnsupportedTemperatureError(error)
                THEN [conv EXCEPT
                        !.pc = "network", !.attempt = 2, !.error = None,
                        !.requests = Append(@, RequestOf(conv,
                                       [first EXCEPT !.temperature = FALSE], 2))]
                ELSE [conv EXCEPT !.pc = "raised"]
  /\ UNCHANGED <<exchangeVars, mp, tasks, validatorErrors, rw, eq, tool>>

\* the items are exhausted and running is still true: the check of the
\* signal at the head of the loop, then the yield
EngNextRound ==
  /\ conv.pc = "items"
  /\ conv.response = <<>>
  /\ conv' = IfNotAborted(conv, [conv EXCEPT !.pc = "loop"])
  /\ UNCHANGED <<exchangeVars, mp, tasks, validatorErrors, rw, eq, tool>>

NextEngine ==
  \/ Construct
  \/ EngStart
  \/ EngAdd
  \/ EngClearOutput
  \/ EngAbort
  \/ EngSend
  \/ EngReceive
  \/ EngReject
  \/ EngCatch
  \/ ConvPush
  \/ ConvHandled
  \/ EngNextRound

SpecEngine == Init /\ [][NextEngine]_vars

\* ------------------------------------- exchanges that check candidates
\* The remote model hands candidates to compilePipeline, runPipeline and
\* emitPipeline: objects and JSON text, valid, rejected by the schema,
\* rejected by the compiler, and values that are no pipeline object at all.
VerifyTools == {"compilePipeline", "runPipeline", "emitPipeline"}

VerifyCalls ==
  {[Call0("emitPipeline") EXCEPT !.pipeline = CandObject(PipeAB), !.final = Some(FALSE)],
   [Call0("emitPipeline") EXCEPT !.pipeline = CandObject(PipeBad)],
   [Call0("emitPipeline") EXCEPT !.pipeline = CandString(PipeNoCompile), !.final = Some(TRUE)],
   [Call0("emitPipeline") EXCEPT !.pipeline = CandObject(JArr(<<>>))],
   [Call0("compilePipeline") EXCEPT !.pipeline = CandString(PipeBad)],
   [Call0("compilePipeline") EXCEPT !.pipeline = CandObject(PipeRev)],
   [Call0("runPipeline") EXCEPT !.pipeline = CandObject(PipeNoCompile)],
   [Call0("runPipeline") EXCEPT !.pipeline = CandBadJson],
   [Call0("requestUserInput") EXCEPT !.text = <<"which", "page">>]}

PushFunctionCallVerify == PushFunctionCallOf(VerifyCalls)

NextVerify ==
  \/ PromptEndToEnd
  \/ AgentStart
  \/ ConversationStart
  \/ SendRequest
  \/ ReceiveResponse
  \/ PushFunctionCallVerify
  \/ FinishBuiltinCall
  \/ PushMessage
  \/ EndOfResponse
  \/ AgentEnd
  \/ Conclude

SpecVerify == Init /\ [][NextVerify]_vars

TypeOK ==
  /\ pc \in {"ready", "agent", "start", "yield", "network", "items", "handler",
             "ended", "conclude", "returned", "raised"}
  /\ calls \in 0..MaxCalls
  /\ nextState.phase \in Phases
  /\ round \in 0..MaxRounds
  /\ items \in 0..MaxItems
  /\ aborted \in BOOLEAN

\* ================================================================== claims
\* ------------------------------------------------------ helper definitions
LogIndexes(kinds) == {i \in DOMAIN log : log[i].kind \in kinds}

TerminalKinds == {"paused", "awaiting", "updated", "unchanged"}

\* function calls of the history, in the order they were served
ServedCalls == SelectSeq(history, LAMBDA h : h.type = "function_call")

IsQuestion(h) ==
  /\ h.type = "function_call"
  /\ Val(h.call).name = "requestUserInput"
  /\ Val(h.call).argsOk
  /\ Len(Trim(Val(h.call).text)) > 0

\* an emitPipeline call whose candidate parses, validates and compiles
IsEmission(h) ==
  /\ h.type = "function_call"
  /\ Val(h.call).name = "emitPipeline"
  /\ Val(h.call).argsOk
  /\ IsSome(Val(h.call).pipeline)
  /\ IsSome(Val(Val(h.call).pipeline).json)
  /\ LET json == Val(Val(Val(h.call).pipeline).json)
     IN json.t = "obj" /\ validatePipelineSchema(json) /\ hasPipeline(json)

IsChat(h) ==
  /\ h.type = "function_call"
  /\ Val(h.call).name = "chatWithUser"
  /\ Val(h.call).argsOk

ServedQuestions == SelectSeq(history, IsQuestion)
ServedEmissions == SelectSeq(history, IsEmission)
ServedChats == SelectSeq(history, IsChat)

EmittedRaw(h) == Val(Val(Val(h.call).pipeline).json)

\* the call returned a snapshot after runAgentInternal had run
ReturnedAfterRun == pc = "returned" /\ IsSome(result)

\* C1: for every phase p other than paused, a pause request followed by a
\* resume request with no control request in between (in one call or in two
\* consecutive calls) restores phase p and clears resumePhase and pausedReason.
C1_PauseResumeRestores ==
  \A i \in 1..(Len(ctlLog) - 1) :
    (/\ ctlLog[i].type = "pause"
     /\ ctlLog[i + 1].type = "resume"
     /\ ctlLog[i].before.phase # "paused")
    => ctlLog[i + 1].after = [phase |-> ctlLog[i].before.phase,
                              resumePhase |-> None,
                              pausedReason |-> None]

\* a snapshot paused from awaiting-user by one call and resumed by the next
C1_Witness ==
  /\ calls = 2
  /\ Len(call.reqs) = 1
  /\ Len(ctlLog) >= 2
  /\ ctlLog[Len(ctlLog) - 1].type = "pause"
  /\ ctlLog[Len(ctlLog) - 1].before.phase = "awaiting-user"
  /\ ctlLog[Len(ctlLog) - 1].after.pausedReason # None
  /\ ctlLog[Len(ctlLog)].type = "resume"
  /\ nextState.phase = "awaiting-user"

\* C2 as stated: every addMessages request, for any messages list, discards
\* the stored agent and pipeline state and forces phase idle.
C2_Original ==
  \A i \in DOMAIN ctlLog :
    ctlLog[i].type = "addMessages"
    => ctlLog[i].after.phase = "idle" /\ ctlLog[i].cleared

\* C2 amended: an addMessages request with at least one message that yields a
\* non-empty instruction discards the stored agent and pipeline state and
\* forces phase idle from any prior phase; one without such a message leaves
\* the snapshot as it was.
C2_AddMessagesResets ==
  \A i \in DOMAIN ctlLog :
    ctlLog[i].type = "addMessages"
    => IF ctlLog[i].effective
       THEN ctlLog[i].after.phase = "idle" /\ ctlLog[i].cleared
       ELSE ctlLog[i].same

\* new instructions on an error snapshot that holds agent and pipeline state
C2_Witness ==
  \E i \in DOMAIN ctlLog :
    /\ ctlLog[i].type = "addMessages"
    /\ ctlLog[i].effective
    /\ ctlLog[i].hadAgent
    /\ ctlLog[i].before.phase = "error"
    /\ ctlLog[i].cleared

\* C3: continuePrompt with the returned snapshot unmodified, the same
\* previousPipeline and no control requests returns the same phase and the
\* same pending question.
C3_ReplayReproduces ==
  (/\ pc = "returned"
   /\ call.kind = "continue"
   /\ call.unmodified
   /\ call.reqs = <<>>
   /\ call.prev = call.heldPrev)
  => /\ Val(ret).state.phase = call.from.phase
     /\ PendingOf(Val(ret).state) = PendingOf(call.from)

\* C4 as stated: onPipelineUpdate fires at most once and only on a structural
\* difference; whenever the emitted pipeline equals previousPipeline there is
\* no update, the status is 'Pipeline unchanged' and the snapshot is complete.
C4_Original ==
  /\ Cardinality(LogIndexes({"update"})) <= 1
  /\ ReturnedAfterRun =>
       LET emitted == Val(result).emittedPipeline
       IN /\ LogIndexes({"update"}) # {}
             => IsSome(emitted) /\ ~StructEq(call.prev, Val(emitted).raw)
          /\ (IsSome(emitted) /\ StructEq(call.prev, Val(emitted).raw))
             => /\ LogIndexes({"update"}) = {}
                /\ Val(ret).status = <<"Pipeline unchanged">>
                /\ Val(ret).state.phase = "complete"
                /\ Val(ret).isComplete

\* C4 amended: as C4, the second half holding when no clarification question
\* is pending at the end of the exchange.
C4_UpdateOnlyOnDifference ==
  /\ Cardinality(LogIndexes({"update"})) <= 1
  /\ ReturnedAfterRun =>
       LET emitted == Val(result).emittedPipeline
       IN /\ LogIndexes({"update"}) # {}
             => IsSome(emitted) /\ ~StructEq(call.prev, Val(emitted).raw)
          /\ (/\ IsSome(emitted)
              /\ StructEq(call.prev, Val(emitted).raw)
              /\ ~IsSome(Val(result).pendingQuestion))
             => /\ LogIndexes({"update"}) = {}
                /\ Last(log).text = <<"Pipeline unchanged">>
                /\ Val(ret).status = <<"Pipeline unchanged">>
                /\ Val(ret).state.phase = "complete"
                /\ Val(ret).isComplete

\* the emitted pipeline has its keys in another order than previousPipeline
C4_Witness ==
  /\ ReturnedAfterRun
  /\ IsSome(Val(result).emittedPipeline)
  /\ Val(Val(result).emittedPipeline).raw # call.prev
  /\ StructEq(call.prev, Val(Val(result).emittedPipeline).raw)
  /\ Val(ret).status = <<"Pipeline unchanged">>
  /\ LogIndexes({"update"}) = {}

\* position of a notification kind in the order of one exchange
KindRank(kind) ==
  CASE kind \in {"working", "narration"} -> 0
    [] kind = "chat" -> 1
    [] kind \in {"output", "progress"} -> 2
    [] kind = "update" -> 3
    [] OTHER -> 4

ChatLogEntries == SelectSeq(log, LAMBDA e : e.kind = "chat")

C6_ExactlyOneTerminalStatus ==
  pc = "returned" =>
    Cardinality({i \in LogIndexes(TerminalKinds) : log[i].cb = "onStatusUpdate"}) = 1

\* C7: after the run the phase is decided in priority order: pending question
\* -> awaiting-user (not complete); else emitted artifact or final output ->
\* complete; else explicit not-finished -> idle (not complete); else complete.
C7_PhasePriority ==
  ReturnedAfterRun =>
    LET r == Val(result)
        question == IsSome(r.pendingQuestion) /\ Len(Val(r.pendingQuestion)) > 0
        artifact == IsSome(r.emittedPipeline)
        finalOutput == IsSome(r.outputData) /\ Val(r.outputData).final
        notFinished == r.finishRequested = Some(FALSE)
        expected == IF question THEN "awaiting-user"
                    ELSE IF artifact \/ finalOutput THEN "complete"
                    ELSE IF notFinished THEN "idle"
                    ELSE "complete"
    IN /\ Val(ret).state.phase = expected
       /\ Val(ret).isComplete = (expected = "complete")

\* a pending question wins over an emitted artifact
C7_Witness ==
  /\ ReturnedAfterRun
  /\ IsSome(Val(result).pendingQuestion)
  /\ IsSome(Val(result).emittedPipeline)
  /\ Val(ret).state.phase = "awaiting-user"

\* C8 as stated: once requestUserInput with a non-empty question was served,
\* the exchange ends awaiting-user, not complete, with that question pending.
C8_Original ==
  ReturnedAfterRun =>
    \A i \in DOMAIN ServedQuestions :
      /\ Val(ret).state.phase = "awaiting-user"
      /\ ~Val(ret).isComplete
      /\ PendingOf(Val(ret).state) = Some(Trim(Val(ServedQuestions[i].call).text))

\* C8 amended: once requestUserInput with a question that is non-empty after
\* trimming was served, the exchange ends awaiting-user, not complete, and
\* the pending question is the trimmed question of the last such call.
C8_QuestionWins ==
  (ReturnedAfterRun /\ Len(ServedQuestions) > 0) =>
    /\ Val(ret).state.phase = "awaiting-user"
    /\ ~Val(ret).isComplete
    /\ PendingOf(Val(ret).state) = Some(Trim(Val(Last(ServedQuestions).call).text))

\* a question followed by a successful emitPipeline
C8_Witness ==
  /\ ReturnedAfterRun
  /\ Len(ServedCalls) = 2
  /\ IsQuestion(ServedCalls[1])
  /\ IsEmission(ServedCalls[2])
  /\ Val(ret).state.phase = "awaiting-user"

\* C9 as stated: once emitPipeline succeeded, the returned snapshot stores the
\* most recently emitted raw pipeline as pipeline.json and is complete.
C9_Original ==
  (ReturnedAfterRun /\ Len(ServedEmissions) > 0) =>
    /\ IsSome(Val(ret).state.pipeline)
    /\ Val(Val(ret).state.pipeline).json = Some(EmittedRaw(Last(ServedEmissions)))
    /\ Val(ret).state.phase = "complete"

\* C9 amended: once emitPipeline succeeded and no clarification question is
\* pending at the end of the exchange, the snapshot stores the most recently
\* emitted raw pipeline as pipeline.json and is complete; with a question
\* pending the phase is awaiting-user and the stored pipeline is not replaced.
C9_EmittedIsResult ==
  (ReturnedAfterRun /\ Len(ServedEmissions) > 0) =>
    IF Len(ServedQuestions) = 0
    THEN /\ IsSome(Val(ret).state.pipeline)
         /\ Val(Val(ret).state.pipeline).json = Some(EmittedRaw(Last(ServedEmissions)))
         /\ Val(ret).state.phase = "complete"
         /\ Val(ret).isComplete
    ELSE /\ Val(ret).state.phase = "awaiting-user"
         /\ Val(ret).state.pipeline
              = applyControlRequests(cloneState(call.from), call.reqs).pipeline

\* two successful emissions of different pipelines in one exchange
C9_Witness ==
  /\ ReturnedAfterRun
  /\ Len(ServedEmissions) = 2
  /\ EmittedRaw(ServedEmissions[1]) # EmittedRaw(ServedEmissions[2])
  /\ Val(ret).state.phase = "complete"

\* C10: a call during which the cancellation signal was set never returns a
\* snapshot.
C10_CancelledNeverReturns == pc = "returned" => ~aborted

\* C11: when the cancellation signal is set before the first network round,
\* the next step of the exchange raises: no request is sent (the round count
\* stays 0), no tool call is served and the history is the one the engine
\* was initialised with (empty before the engine is built).
C11_CancelBeforeFirstRound ==
  [][(aborted /\ round = 0 /\ pc \in {"agent", "start", "yield"})
       => /\ pc' = "raised"
          /\ round' = 0
          /\ history' = history
          /\ ServedCalls = <<>>
          /\ history \in {<<>>, InitialHistory(composePrompt(nextState), call.prev)}]_vars

\* an exchange cancelled after the engine was built and before it sent anything
C11_Witness ==
  /\ pc = "raised"
  /\ aborted
  /\ round = 0
  /\ history = InitialHistory(composePrompt(nextState), call.prev)

\* C12: continuePrompt on a snapshot with no recoverable prompt (absent or
\* not an object, prompt missing, prompt empty) fails with an error before
\* anything else happens: no control request of its list is applied, no
\* callback fires and no request is sent to the remote model.
C12_NoPromptFailsFast ==
  call.kind = "damaged"
    => /\ pc = "raised"
       /\ ctlLog = heldCtl
       /\ log = <<>>
       /\ history = <<>>
       /\ round = 0
       /\ usage.starts = 0
       /\ IsSome(ret) /\ Val(ret).state = nextState

\* such a call that carried control requests, made after an earlier call
C12_Witness ==
  /\ call.kind = "damaged"
  /\ pc = "raised"
  /\ calls = 2
  /\ Len(call.reqs) = 2
  /\ call.reqs[1].type = "addMessages"

\* a snapshot that waits for the user: awaiting-user, or paused over it
Waiting(state) ==
  \/ state.phase = "awaiting-user"
  \/ state.phase = "paused" /\ state.resumePhase = Some("awaiting-user")

\* the list holds an addMessages request that yields an instruction
HasAdditions(reqs) ==
  \E i \in DOMAIN reqs :
    reqs[i].type = "addMessages" /\ Len(Additions(reqs[i].messages)) > 0

\* C13 as stated: without a non-empty addMessages the engine never runs and
\* the question is kept; with one, the phase goes through idle and the engine
\* runs.
C13_Original ==
  (call.kind = "continue" /\ Waiting(call.from))
    => IF ~HasAdditions(call.reqs)
       THEN /\ pc = "returned"
            /\ history = <<>> /\ round = 0
            /\ PendingOf(Val(ret).state) = PendingOf(call.from)
       ELSE pc = "agent"

\* C13: a snapshot that waits for the user resolves only through addMessages.
\* A continuePrompt call on it whose list holds no addMessages with a
\* non-empty instruction returns without running the engine (no history, no
\* round), still waiting and with the same stored agent and pending
\* question, so this holds for every sequence of such calls. With such an
\* addMessages the phase goes to idle and the engine runs, unless a later
\* pause of the same list leaves the snapshot paused over idle.
C13_AwaitingNeedsAddMessages ==
  (call.kind = "continue" /\ Waiting(call.from))
    => IF ~HasAdditions(call.reqs)
       THEN /\ pc = "returned"
            /\ history = <<>> /\ round = 0 /\ usage.starts = 0
            /\ Waiting(Val(ret).state)
            /\ Val(ret).state.agent = call.from.agent
            /\ PendingOf(Val(ret).state) = PendingOf(call.from)
            /\ ~Val(ret).isComplete
       ELSE /\ \E i \in DOMAIN ctlLog :
                 /\ ctlLog[i].type = "addMessages"
                 /\ ctlLog[i].effective
                 /\ ctlLog[i].after.phase = "idle"
            /\ \/ pc = "agent" /\ nextState.phase = "acting"
               \/ /\ pc = "returned"
                  /\ Val(ret).state.phase = "paused"
                  /\ Val(ret).state.resumePhase = Some("idle")

\* a question that survived a pause in one call and a resume in the next
C13_Witness ==
  /\ calls = 2
  /\ call.kind = "continue"
  /\ call.from.phase = "paused"
  /\ call.from.resumePhase = Some("awaiting-user")
  /\ call.reqs = <<Resume>>
  /\ pc = "returned"
  /\ Val(ret).state.phase = "awaiting-user"
  /\ PendingOf(Val(ret).state) = Some(<<"which", "page">>)

\* pause requests applied to a snapshot that was already paused
RepeatedPauses ==
  {i \in DOMAIN ctlLog : ctlLog[i].type = "pause" /\ ctlLog[i].before.phase = "paused"}

\* C14 as stated: a pause applied to a paused snapshot leaves the snapshot
\* unchanged (phase, remembered phase and pause reason).
C14_Original ==
  \A i \in RepeatedPauses : ctlLog[i].same

\* C14: a pause applied to a paused snapshot keeps the phase paused and the
\* remembered phase (which therefore never becomes paused) and changes
\* nothing else except the pause reason, which becomes the reason of the new
\* request (none when the request gives none).
C14_PauseKeepsRememberedPhase ==
  \A i \in RepeatedPauses :
    /\ ctlLog[i].after.phase = "paused"
    /\ ctlLog[i].after.resumePhase = ctlLog[i].before.resumePhase
    /\ ctlLog[i].after.resumePhase # Some("paused")
    /\ ctlLog[i].after.pausedReason = ctlLog[i].reason
    /\ ctlLog[i].frame
    /\ ctlLog[i].reason = ctlLog[i].before.pausedReason => ctlLog[i].same

\* a second pause without reason that wipes the reason of the first
C14_Witness ==
  \E i \in RepeatedPauses :
    /\ i > 1
    /\ ctlLog[i - 1].type = "pause"
    /\ ctlLog[i - 1].before.phase = "awaiting-user"
    /\ ctlLog[i].before.pausedReason = Some(<<"break">>)
    /\ ctlLog[i].after.pausedReason = None
    /\ ctlLog[i].after.resumePhase = Some("awaiting-user")

\* a call that returned a paused snapshot
PausedCall ==
  /\ call.kind \in {"prompt", "continue"}
  /\ pc = "returned"
  /\ Val(ret).state.phase = "paused"

\* no step of the engine was taken in the call
EngineIdle ==
  /\ history = <<>> /\ round = 0 /\ usage.starts = 0
  /\ workingState = EmptyWorkingState
  /\ result = None

\* C15 as stated: a call whose control requests leave the phase paused does
\* not run the engine, invokes no onPipelineUpdate, leaves the stored agent
\* and pipeline state unchanged and returns isPaused true, isComplete false.
C15_Original ==
  PausedCall
    => /\ EngineIdle
       /\ LogIndexes({"update"}) = {}
       /\ Val(ret).state.agent = call.from.agent
       /\ Val(ret).state.pipeline = call.from.pipeline
       /\ Val(ret).isPaused /\ ~Val(ret).isComplete

\* C15: a call whose control requests leave the phase paused does not run
\* the engine: no model request, no tool handler, no onPipelineUpdate, one
\* status notification ("Paused", with the reason if there is one); the
\* stored agent and pipeline state are as the control requests left them,
\* that is unchanged unless the list holds an addMessages with a non-empty
\* instruction, which discards both; the value returned has isPaused true
\* and isComplete false.
C15_PausedCallIsFrame ==
  PausedCall
    => /\ EngineIdle
       /\ log = <<StatusNote("paused", describePhase(Val(ret).state))>>
       /\ IF HasAdditions(call.reqs)
          THEN Val(ret).state.agent = None /\ Val(ret).state.pipeline = None
          ELSE /\ Val(ret).state.agent = call.from.agent
               /\ Val(ret).state.pipeline = call.from.pipeline
       /\ Val(ret).isPaused /\ ~Val(ret).isComplete
       /\ nextState = Val(ret).state

\* a finished snapshot with a stored pipeline, paused by the call
C15_Witness ==
  /\ PausedCall
  /\ call.kind = "continue"
  /\ call.from.phase = "complete"
  /\ call.from.pipeline = Some(SamplePipeline)
  /\ Val(ret).state.pipeline = Some(SamplePipeline)
  /\ Val(ret).state.resumePhase = Some("complete")
  /\ Val(ret).isPaused

\* C16: onPipelineUpdate is never invoked in a call that raises; while a call
\* is under way or has raised, no artifact has been handed to the caller,
\* and when one has, the engine had reached its terminal output and the call
\* returned.
C16_NoPartialArtifact ==
  /\ pc = "raised" => LogIndexes({"update"}) = {}
  /\ LogIndexes({"update"}) # {}
       => /\ pc = "returned"
          /\ IsSome(output)
          /\ IsSome(result)
          /\ usage.ends = 1

\* a call that raised after its engine had accepted a pipeline that differs
\* from the previous one
C16_Witness ==
  /\ pc = "raised"
  /\ IsSome(workingState.emittedPipeline)
  /\ ~arePipelinesEqual(Some(call.prev),
                        Some(Val(workingState.emittedPipeline).raw))
  /\ round = 2

\* the usage monitor vetoed the start of the exchange
ExchangeVetoed == result = Some(VetoedResult)

\* the usage monitor vetoed the start of the call of OpenAiModel
ModelVetoed == mp.proceed = Some(FALSE)

\* C17: when the usage monitor vetoes the start, no request is sent to the
\* remote model, no tool handler runs and no error is raised. The exchange
\* goes straight to its conclusion and returns a snapshot with no last
\* message and no pending question, the stored pipeline as the control
\* requests left it and no onPipelineUpdate; OpenAiModel returns its input
\* and no result. In both no usage end event is emitted.
C17_VetoReturnsEmpty ==
  /\ ExchangeVetoed
       => /\ pc \in {"conclude", "returned"}
          /\ round = 0 /\ history = <<>> /\ workingState = EmptyWorkingState
          /\ usage = [starts |-> 1, ends |-> 0]
          /\ pc = "returned"
               => /\ LogIndexes({"update", "updated", "unchanged"}) = {}
                  /\ Val(Val(ret).state.agent).lastMessage = None
                  /\ PendingOf(Val(ret).state) = None
                  /\ Val(ret).state.pipeline
                       = applyControlRequests(cloneState(call.from), call.reqs).pipeline
  /\ ModelVetoed
       => /\ mp.pc = "done"
          /\ mp.requests = 0 /\ mp.ends = 0
          /\ mp.result = None
          /\ mp.outputText = None

\* a vetoed exchange that has returned, followed by a vetoed call of
\* promptWithSchema
C17_Witness ==
  /\ ExchangeVetoed
  /\ pc = "returned"
  /\ Val(ret).state.phase = "complete"
  /\ ModelVetoed
  /\ mp.method = "promptWithSchema"
  /\ mp.pc = "done"

\* requests of the exchange that reached the remote model and are visible in
\* its records: one per network round and one per narration the status model
\* produced (a retry without temperature and a narration request that
\* failed are further requests)
ModelRequests == round + Cardinality(LogIndexes({"narration"}))

\* C18: every request sent to the remote model has its own usage event pair,
\* so an exchange that ran and returned has emitted as many start events and
\* as many end events as it made model requests.
C18_UsagePairPerRequest ==
  (ReturnedAfterRun /\ ~ExchangeVetoed)
    => usage.starts = ModelRequests /\ usage.ends = ModelRequests

\* the working record of an exchange that serves the calls alone
RECURSIVE AloneWs(_, _)
AloneWs(served, prev) ==
  IF served = <<>> THEN EmptyWorkingState
  ELSE LET c == served[Len(served)]
           pipelineJson == Validated(c)
       IN HandlerOutcome(AloneWs(SubSeq(served, 1, Len(served) - 1), prev), c, prev,
                         IF IsSome(pipelineJson) THEN SchemaErrors(Val(pipelineJson))
                         ELSE None).ws

\* the items that exchange appends for the calls
RECURSIVE AloneItems(_, _)
AloneItems(served, prev) ==
  IF served = <<>> THEN <<>>
  ELSE LET n == Len(served)
           before == SubSeq(served, 1, n - 1)
           c == served[n]
           pipelineJson == Validated(c)
           outcome == HandlerOutcome(AloneWs(before, prev), c, prev,
                                     IF IsSome(pipelineJson) THEN SchemaErrors(Val(pipelineJson))
                                     ELSE None)
       IN AloneItems(before, prev)
          \o <<HistoryItem("function_call", <<>>, Some(c), n),
               HistoryItem("function_call_output", outcome.content, None, n)>>

\* the history of that exchange at the position of task t
AloneHistory(h, t) ==
  LET all == AloneItems(TaskCalls(t), t.prev)
  IN InitialHistory(TaskPrompts[h], t.prev)
     \o (IF t.pc = "output" THEN SubSeq(all, 1, Len(all) - 1) ELSE all)
     \o (IF t.pc \in {"ended", "returned"}
         THEN <<HistoryItem("message", <<"done">>, None, 0)>> ELSE <<>>)

\* C19: two exchanges with distinct handles running side by side on one
\* provider instance do not interfere: under every interleaving of their
\* network rounds and tool calls, the history, the working record and the
\* returned snapshot of each are what that exchange produces when it serves
\* the same calls alone.
C19_ExchangesDoNotInterfere ==
  \A h \in Handles :
    LET t == tasks[h]
        alone == AloneWs(TaskCalls(t), t.prev)
    IN t.pc # "ready"
         => /\ t.history = AloneHistory(h, t)
            /\ t.ws = alone
            /\ t.pc = "returned"
                 => /\ t.ret = Some(postRunState(h,
                                    [createInitialState(TaskPrompts[h]) EXCEPT !.phase = "acting"],
                                    AgentResult(AloneHistory(h, t), Some(<<"done">>), alone),
                                    t.prev))
                    /\ Val(t.ret).id = h

\* the first exchange has read the errors of its invalid pipeline and waits
\* to append them while the second has had a valid pipeline validated, and
\* the second holds what the first never asked for
C19_Witness ==
  /\ tasks[1].pc = "output"
  /\ tasks[1].held = Some(<<"{success:false}", "must NOT have additional properties">>)
  /\ validatorErrors = None
  /\ IsSome(tasks[2].ws.emittedPipeline)
  /\ ~IsSome(tasks[1].ws.emittedPipeline)
  /\ Len(TaskCalls(tasks[1])) = 2

\* C20: every callback invocation is awaited: an exchange appends to its
\* history (and so serves a tool call or sends a request) only when every
\* promise its callbacks have returned has settled.
C20_CallbacksAwaited ==
  [][\A h \in Handles :
       (tasks[h].pc # "ready" /\ Len(tasks'[h].history) > Len(tasks[h].history))
         => tasks[h].unsettled = 0]_vars

C21_GaveUp ==
  /\ rw.pc = "returned"
  /\ rw.invalid >= RetryCeiling
  /\ ~IsSome(rw.artifact)

\* the items appended by Conversation.start() in this exchange
ExchangeItems == SubSeq(history, 4, Len(history))

IsGoto(h) == h.type = "function_call" /\ h.call = Some(Call0("goto"))
ReturnedOk(h) == h.type = "function_call_output" /\ h.content = <<"{ok:true}">>
IsEmitOf(h, json) ==
  /\ h.type = "function_call"
  /\ h.call = Some([Call0("emitPipeline") EXCEPT !.pipeline = CandObject(json)])
UpdateNotes == SelectSeq(log, LAMBDA n : n.cb = "onPipelineUpdate")

\* C22 as stated: an exchange whose first response is a goto call that
\* returned and whose terminal output is the text of a valid pipeline has
\* validated and compiled that pipeline, ends complete and has fired
\* onPipelineUpdate exactly once.
C22_Original ==
  (/\ ReturnedAfterRun
   /\ Len(ExchangeItems) = 3
   /\ IsGoto(ExchangeItems[1])
   /\ ReturnedOk(ExchangeItems[2])
   /\ ExchangeItems[3] = HistoryItem("message", Stringify(PipeRev), None, 0))
  => /\ Val(result).emittedPipeline = Some([raw |-> PipeRev, pipeline |-> Compile(PipeRev)])
     /\ Val(ret).state.phase = "complete"
     /\ Len(UpdateNotes) = 1

\* C22 amended: an exchange whose first response is a goto call that returned
\* and in which the model then hands over, in an emitPipeline tool call, a
\* valid pipeline that differs from the previous pipeline, before its terminal
\* message, has validated and compiled that pipeline, ends complete, and has
\* fired onPipelineUpdate exactly once, with the compiled pipeline.
C22_EndToEnd ==
  (/\ ReturnedAfterRun
   /\ Len(ExchangeItems) = 5
   /\ IsGoto(ExchangeItems[1])
   /\ ReturnedOk(ExchangeItems[2])
   /\ IsEmitOf(ExchangeItems[3], PipeRev)
   /\ ExchangeItems[5].type = "message")
  => /\ Val(result).emittedPipeline = Some([raw |-> PipeRev, pipeline |-> Compile(PipeRev)])
     /\ ExchangeItems[4].type = "function_call_output"
     /\ ExchangeItems[4].content = <<"{success:true}">>
     /\ Val(ret).state.phase = "complete"
     /\ Val(ret).isComplete
     /\ Len(UpdateNotes) = 1
     /\ UpdateNotes[1].pipe = Some(Compile(PipeRev))

\* goto in the first round, emitPipeline and the terminal message in the second
C22_Witness ==
  /\ ReturnedAfterRun
  /\ round = 2
  /\ Len(ExchangeItems) = 5
  /\ IsGoto(ExchangeItems[1])
  /\ ReturnedOk(ExchangeItems[2])
  /\ IsEmitOf(ExchangeItems[3], PipeRev)
  /\ ExchangeItems[5].type = "message"
  /\ Len(UpdateNotes) = 1

\* C23: arePipelinesEqual answers true exactly when both pipelines are absent
\* or both are present and structurally equal up to the order of object keys
\* at every depth (arrays compared position by position); an absent pipeline
\* never equals a present one.
C23_StructuralEquality ==
  eq.pc = "compared" =>
    Val(eq.verdict) =
      (IF ~IsSome(eq.first) /\ ~IsSome(eq.second) THEN TRUE
       ELSE IF ~IsSome(eq.first) \/ ~IsSome(eq.second) THEN FALSE
       ELSE StructEq(Val(eq.first), Val(eq.second)))

C25_NoDefsAndCompiles ==
  tool.pc = "compiled" =>
    /\ ~IsSome(Val(tool.schema).defs)
    /\ tool.compiles = Some(TRUE)

ErrorPrefix == "Error while executing function: "

\* the handler of the call being serviced fails: an unknown tool, arguments
\* or a pipeline string that do not parse, a node without schema
HandlerFails ==
  /\ pc = "handler"
  /\ Val(cur).name \notin browserToolNames \/ ~Val(cur).argsOk
  /\ handle(workingState, Val(cur), call.prev).threw

\* C26: the step that ends the servicing of a tool call never leaves
\* Conversation.start(): it appends one tool-result item with the call_id of
\* the call, which carries an error string whenever the handler failed, and
\* the loop goes on with the next item of the response.
C26_FailuresAbsorbed ==
  [][(pc = "handler" /\ pc' # "handler") =>
       /\ pc' = "items"
       /\ Len(history') = Len(history) + 1
       /\ SubSeq(history', 1, Len(history)) = history
       /\ Last(history).type = "function_call"
       /\ Last(history').type = "function_call_output"
       /\ Last(history').call_id = Last(history).call_id
       /\ HandlerFails =>
            Last(history').content =
              <<ErrorPrefix>> \o handle(workingState, Val(cur), call.prev).out]_vars

FailedOutputs ==
  SelectSeq(history,
            LAMBDA h : h.type = "function_call_output" /\ h.content # <<>>
                       /\ Head(h.content) = ErrorPrefix)

\* an exchange that went on to a second round and returned after two of its
\* tool calls had failed, one for an unknown tool and one for bad arguments
C26_Witness ==
  /\ ReturnedAfterRun
  /\ round = 2
  /\ Len(FailedOutputs) = 2
  /\ FailedOutputs[1].content = <<ErrorPrefix, "Unsupported tool call">>
  /\ FailedOutputs[2].content = <<ErrorPrefix, "Unexpected token">>

\* every function_call item is directly followed by the result item of the
\* same call_id (or, as the last item, is being serviced), and every result
\* item directly follows its call
Paired(h, servicing) ==
  \A i \in 1..Len(h) :
    /\ h[i].type = "function_call" =>
         IF i = Len(h) THEN servicing
         ELSE /\ h[i + 1].type = "function_call_output"
              /\ h[i + 1].call_id = h[i].call_id
    /\ h[i].type = "function_call_output" =>
         /\ i > 1
         /\ h[i - 1].type = "function_call"
         /\ h[i - 1].call_id = h[i].call_id

\* C27: every step of an exchange leaves the history as it was or appends one
\* item to it; no entry is removed, replaced or reordered; every function_call
\* item is followed immediately by exactly one function_call_output item with
\* its call_id, appended before the next item of the response is processed.
C27_AppendOnlyPaired ==
  [][/\ Len(conv'.history) \in {Len(conv.history), Len(conv.history) + 1}
     /\ SubSeq(conv'.history, 1, Len(conv.history)) = conv.history
     /\ Paired(conv'.history, conv'.pc = "handler")
     /\ conv.pc = "handler" => conv'.response = conv.response]_vars

\* a response of two calls, both serviced in order, the second one failing
C27_Witness ==
  /\ conv.pc = "loop"
  /\ Len(conv.received) = 1
  /\ CallsIn(conv.received[1]) = 2
  /\ Len(conv.history) = 5
  /\ conv.history[3].content = <<"result">>
  /\ conv.history[5].content = <<"Error while executing function: ">>
  /\ conv.history[5].call_id = 2

RECURSIVE Flatten(_)
Flatten(seqs) == IF seqs = <<>> THEN <<>> ELSE Head(seqs) \o Flatten(Tail(seqs))

\* the items of the history that came from the remote model
ResponseItems(h) == SelectSeq(Tail(h), LAMBDA m : m.type # "function_call_output")

\* C28: once start() has ended, the history holds every item of every
\* response received, in the order of the responses, and onMessages has been
\* invoked once for every item appended.
C28_EveryItemAppended ==
  conv.pc = "ended" =>
    /\ ResponseItems(conv.history) = Flatten(conv.received)
    /\ conv.notified = Len(conv.history) - 1

HasMessage(response) == \E i \in DOMAIN response : response[i].type = "message"
ToolCallsOnly(response) ==
  response # <<>> /\ \A i \in DOMAIN response : response[i].type = "function_call"
FirstMessage(response) ==
  CHOOSE i \in DOMAIN response :
    response[i].type = "message" /\ \A j \in 1..(i - 1) : response[j].type # "message"
Serviced(h, callId) ==
  \E i \in DOMAIN h : h[i].type = "function_call_output" /\ h[i].call_id = callId

\* what C29 says of one state of the Conversation
StopsAtFirstMessage(c) ==
  /\ IsSome(c.output) <=> c.pc = "ended"
  /\ \A r \in 1..(Len(c.received) - 1) : ~HasMessage(c.received[r])
  /\ c.pc = "ended" =>
       LET last == Last(c.received)
       IN /\ HasMessage(last)
          /\ Last(c.history).type = "message"
          /\ \A j \in 1..(FirstMessage(last) - 1) :
               last[j].type = "function_call" => Serviced(c.history, last[j].call_id)
  /\ c.pc \in {"loop", "network"} => \A r \in DOMAIN c.received : ~HasMessage(c.received[r])

\* C29: start() sets the terminal output and stops exactly the first time a
\* response contains a message item: the tool calls before the message in
\* that response have been serviced, no step and no network round follows,
\* and a response without message item (tool calls only) sets no terminal
\* output and is followed by another network round.
C29_StopsAtFirstMessage ==
  [][/\ StopsAtFirstMessage(conv')
     /\ conv.pc = "ended" => conv' = conv
     /\ (conv.pc = "items" /\ conv.response = <<>>) =>
          conv'.pc = "loop" /\ ~IsSome(conv'.output)
     /\ conv.pc = "loop" =>
          conv'.pc = "network" /\ conv'.rounds >= conv.rounds]_vars

\* a response of one tool call led to a second round, whose response held a
\* tool call, serviced, and then the message
C29_Witness ==
  /\ conv.pc = "ended"
  /\ conv.rounds = 2
  /\ ToolCallsOnly(conv.received[1])
  /\ Len(conv.received[2]) = 2
  /\ conv.received[2][1].type = "function_call"
  /\ conv.received[2][2].type = "message"
  /\ Serviced(conv.history, conv.received[2][1].call_id)

\* C30: whatever the remote model answers, Conversation.start() reaches a
\* terminal output or raises after finitely many network rounds.
C30_ExchangeEnds == <>(conv.pc \in {"ended", "raised"})

\* the calls of start() and of responses.create in a step of the engine
Starting == conv'.starts = conv.starts + 1
Sending == Len(conv'.requests) = Len(conv.requests) + 1
AddedIn(input) == {i \in DOMAIN input : input[i].type = "user"}

\* C31: start() fails with the misuse error exactly when the terminal output
\* is set, and then sends no request and leaves the history as it is; once
\* the output is cleared the Conversation is driven again, and the request it
\* sends carries the whole history, the messages added with add() included.
C31_MisuseGuard ==
  [][/\ Starting =>
          /\ (conv'.pc = "raised" /\ conv'.error = Some(MisuseError)) <=> IsSome(conv.output)
          /\ IsSome(conv.output) =>
               /\ conv'.requests = conv.requests
               /\ conv'.history = conv.history
               /\ conv'.output = conv.output
          /\ ~IsSome(conv.output) /\ ~conv.aborted => conv'.pc = "loop"
     /\ Sending /\ conv.pc = "loop" =>
          /\ Last(conv'.requests).payload.input = conv.history
          /\ Cardinality(AddedIn(Last(conv'.requests).payload.input)) = conv.added
     /\ conv'.error = Some(MisuseError) /\ conv.error # Some(MisuseError) => Starting
    ]_vars

\* a Conversation that ended, was added to, cleared and driven again with the
\* whole history, ended again and was then started once more without clearing
C31_Witness ==
  /\ conv.pc = "raised"
  /\ conv.error = Some(MisuseError)
  /\ \E r \in DOMAIN conv.requests :
       LET input == conv.requests[r].payload.input
       IN \E i, j \in DOMAIN input :
            /\ i < j
            /\ input[i].type = "message"
            /\ input[j].type = "user"

\* the rejection the degrade policy is about, in the words of the remote
\* model's answer
TemperatureNotSupported(error) ==
  /\ {"temperature", "not supported"} \subseteq error.words
  /\ error.status \in {None, Some(400)}

RequestsOfRound(c, k) == {i \in DOMAIN c.requests : c.requests[i].round = k}

\* C32: a round sends at most two requests; the second is sent exactly when
\* the first was rejected as 'temperature not supported' (status 400 or no
\* status) and is the first without its temperature; every other rejection,
\* and every rejection of the second request, leaves start() as it came,
\* with no further request.
C32_DegradeOnce ==
  [][/\ \A k \in 1..conv'.rounds : Cardinality(RequestsOfRound(conv', k)) <= 2
     /\ conv.pc = "rejected" /\ conv'.pc # "rejected" =>
          LET error == Val(conv.error).error
              first == Last(conv.requests)
          IN IF conv.attempt = 1 /\ TemperatureNotSupported(error)
             THEN /\ conv'.pc = "network"
                  /\ Sending
                  /\ Last(conv'.requests).round = first.round
                  /\ Last(conv'.requests).attempt = 2
                  /\ Last(conv'.requests).payload = [first.payload EXCEPT !.temperature = FALSE]
                  /\ first.payload.temperature
             ELSE /\ conv'.pc = "raised"
                  /\ conv'.error = Some(TransportError(error))
                  /\ conv'.requests = conv.requests
     /\ Sending => conv.pc = "rejected" \/ (conv.pc = "loop" /\ conv'.rounds = conv.rounds + 1)
    ]_vars

\* a round whose first request was rejected for its temperature and whose
\* second request was rejected too, which ended start()
C32_Witness ==
  /\ conv.pc = "raised"
  /\ IsSome(conv.error)
  /\ Val(conv.error).kind = "transport"
  /\ conv.attempt = 2
  /\ Cardinality(RequestsOfRound(conv, conv.rounds)) = 2

\* C33: the signal is checked before every request and after every
\* suspension, so no call of responses.create is made, the retry of the
\* degrade policy included, once the signal is set.
C33_NoRequestOnceCancelled ==
  \A i \in DOMAIN conv.requests : ~conv.requests[i].signalled

\* the step that ends the servicing of a call of one of the checking tools
Checking ==
  /\ pc = "handler"
  /\ IsSome(cur)
  /\ Val(cur).name \in VerifyTools
  /\ Val(cur).argsOk
  /\ pc' # "handler"

\* a pipeline object that the schema validator or the compiler rejects
RejectedCandidate(c) ==
  /\ IsSome(Validated(c))
  /\ \/ ~validatePipelineSchema(Val(Validated(c)))
     \/ ~hasPipeline(Val(Validated(c)))

\* C34: compilePipeline, runPipeline and emitPipeline do not raise on a
\* candidate that the schema or the compiler rejects but return success=false
\* with the errors; the compiler sees a candidate only after the schema
\* validator accepted it; and an emitPipeline that fails leaves the emitted
\* artifact, the finish intent and the pending question as they were.
C34_VerdictsAreReturned ==
  [][Checking =>
       LET c == Val(cur)
           verdict == validateAndCompilePipeline(c.pipeline)
           failed == Last(history').content # <<"{success:true}">>
       IN /\ verdict.compiled => /\ IsSome(Validated(c))
                                /\ validatePipelineSchema(Val(Validated(c)))
          /\ RejectedCandidate(c) =>
               /\ pc' = "items"
               /\ Last(history').type = "function_call_output"
               /\ Last(history').content = <<"{success:false}">>
               /\ IsSome(verdict.errors)
          /\ c.name = "emitPipeline" /\ failed =>
               /\ workingState'.emittedPipeline = workingState.emittedPipeline
               /\ workingState'.finishRequested = workingState.finishRequested
               /\ workingState'.pendingQuestion = workingState.pendingQuestion
    ]_vars

\* an exchange that emitted an artifact and then got success=false for an
\* emitPipeline of a candidate the compiler rejects
C34_Witness ==
  /\ pc = "items"
  /\ IsSome(workingState.emittedPipeline)
  /\ workingState.finishRequested = Some(FALSE)
  /\ Len(history) >= 2
  /\ Last(history).type = "function_call_output"
  /\ Last(history).content = <<"{success:false}">>
  /\ history[Len(history) - 1].type = "function_call"
  /\ Val(history[Len(history) - 1].call).name = "emitPipeline"
  /\ Val(history[Len(history) - 1].call).pipeline = CandString(PipeNoCompile)

\* the working record after the calls have been served one after the other
RECURSIVE Serve(_, _)
Serve(served, prev) ==
  IF served = <<>> THEN EmptyWorkingState
  ELSE LET c == Val(Last(served).call)
           before == Serve(SubSeq(served, 1, Len(served) - 1), prev)
       IN IF c.name \in browserToolNames /\ c.argsOk
          THEN [before EXCEPT !.lastTool = Some(c.name)]
          ELSE handle(before, c, prev).ws

NotChat(h) == Val(h.call).name # "chatWithUser"

\* C35: the chatWithUser calls of an exchange change nothing of its
\* completion: the phase, isComplete, the emitted artifact, the pending
\* question and the output data of the returned snapshot are those of the
\* exchange that serves the same calls without the chatWithUser calls; the
\* chat calls only add chat notifications, in the order they were served.
C35_ChatIsInert ==
  ReturnedAfterRun =>
    LET with == Val(result)
        without == AgentResult(with.messages, with.outputText,
                               Serve(SelectSeq(ServedCalls, NotChat), call.prev))
        other == postRunState(call.id, Val(ret).state, without, call.prev)
    IN /\ Val(ret).state.phase = other.state.phase
       /\ Val(ret).isComplete = other.isComplete
       /\ with.emittedPipeline = without.emittedPipeline
       /\ Val(ret).state.pipeline = other.state.pipeline
       /\ with.pendingQuestion = without.pendingQuestion
       /\ with.outputData = without.outputData
       /\ without.chatMessages = <<>>
       /\ Len(ChatLogEntries) = Len(ServedChats)
       /\ \A i \in DOMAIN ChatLogEntries :
            ChatLogEntries[i].text
              = <<"[chat:", IF Val(ServedChats[i].call).audience = Some("observers")
                            THEN "observers" ELSE "user", "] ">>
                \o Val(ServedChats[i].call).text
       /\ SelectSeq(log, LAMBDA e : e.kind \notin {"chat", "working", "narration"})
            = postRunNotes(without, call.prev)

\* an exchange that served a chatWithUser call and then another tool call
\* and returned a finished snapshot
C35_Witness ==
  /\ ReturnedAfterRun
  /\ Len(ServedChats) >= 1
  /\ Len(SelectSeq(ServedCalls, NotChat)) >= 1
  /\ Val(ServedCalls[1].call).name = "chatWithUser"
  /\ Val(ret).isComplete

\* C36: a usage start event that proceeds is followed by exactly one usage
\* end event, whether the request succeeds, fails or (promptWithSchema)
\* returns text that does not parse, in OpenAiModel.prompt, in
\* OpenAiModel.promptWithSchema and in the agent run; a vetoed start is
\* followed by no end event.
C36_OneEndPerStart ==
  /\ mp.pc \in {"done", "raised"}
       => mp.ends = IF mp.proceed = Some(TRUE) THEN 1 ELSE 0
  /\ (pc \in {"returned", "raised"} /\ usage.starts = 1)
       => usage.ends = IF ExchangeVetoed THEN 0 ELSE 1

\* the phase of the call in progress once its control requests are applied
PhaseAfterControl == applyControlRequests(cloneState(call.from), call.reqs).phase

\* C37: the engine is run only from phase idle: the phase acting is entered,
\* and a request is sent to the remote model, only in a call whose phase
\* after applying the control requests is idle; a call on a snapshot whose
\* phase is complete or error, with no addMessages request, sends nothing.
C37_RunOnlyFromIdle ==
  (nextState.phase = "acting" \/ round > 0) => PhaseAfterControl = "idle"

\* C38: every snapshot that prompt or continuePrompt returns has the phase
\* paused, awaiting-user or complete, with isPaused true exactly for paused
\* and isComplete true exactly for complete.
C38_ReturnedPhases ==
  pc = "returned" =>
    /\ Val(ret).state.phase \in {"paused", "awaiting-user", "complete"}
    /\ Val(ret).isPaused <=> Val(ret).state.phase = "paused"
    /\ Val(ret).isComplete <=> Val(ret).state.phase = "complete"
    /\ ~(Val(ret).isPaused /\ Val(ret).isComplete)

\* an exchange that recorded output data that is not final, and nothing
\* else, and returned a finished snapshot
C38_Witness ==
  /\ ReturnedAfterRun
  /\ IsSome(Val(result).outputData)
  /\ ~Val(Val(result).outputData).final
  /\ ~IsSome(Val(result).emittedPipeline)
  /\ ~IsSome(Val(result).pendingQuestion)
  /\ Val(ret).state.phase = "complete"
  /\ Val(ret).isComplete

\* C39: in every snapshot that prompt or continuePrompt returns, the pause
\* reason and the remembered phase are present only when the phase is
\* paused, also after an addMessages request has un-paused the exchange.
C39_BookkeepingOnlyWhilePaused ==
  (pc = "returned" /\ Val(ret).state.phase # "paused")
    => /\ Val(ret).state.pausedReason = None
       /\ Val(ret).state.resumePhase = None

\* C40: an exchange whose start the usage monitor vetoed is returned as
\* finished: phase complete, isComplete true and not paused, with an empty
\* message history, no pipeline of its own (the snapshot's stored pipeline is
\* the one the call began with, none for a prompt call) and no
\* onPipelineUpdate, although no request was sent to the remote model.
C40_VetoedIsFinished ==
  (ExchangeVetoed /\ pc = "returned")
    => /\ Val(ret).state.phase = "complete"
       /\ Val(ret).isComplete /\ ~Val(ret).isPaused
       /\ Val(ret).status = <<"Complete">>
       /\ Val(Val(ret).state.agent).messages = 0
       /\ history = <<>>
       /\ Val(result).emittedPipeline = None
       /\ Val(ret).state.pipeline
            = applyControlRequests(cloneState(call.from), call.reqs).pipeline
       /\ call.kind = "prompt" => Val(ret).state.pipeline = None
       /\ \A i \in DOMAIN log : log[i].cb # "onPipelineUpdate"
       /\ round = 0 /\ usage.ends = 0

\* a prompt call whose start was vetoed and that returned a finished snapshot
\* with no pipeline
C40_Witness ==
  /\ ExchangeVetoed
  /\ pc = "returned"
  /\ call.kind = "prompt"
  /\ calls = 1
  /\ Val(ret).isComplete
  /\ Val(ret).state.pipeline = None
  /\ usage.starts = 1
====
